---- MODULE Spec2Model ----
(***************************************************************************)
(* Model of the API gateway's request pipeline:                            *)
(*   - router.ServiceRegistry      (round-robin endpoint registry)          *)
(*   - middleware.RateLimiter      (fixed-window counter kept in Redis)     *)
(*   - middleware.CircuitBreaker   (gobreaker, configured per backend)      *)
(* Each component has its own specification (SpecReg, SpecRL, SpecCB) over  *)
(* the same variables; the variables of the other components stay put.     *)
(***************************************************************************)
EXTENDS Integers, Sequences, FiniteSets, TLC

(***************************************************************************)
(* Bounds of the model.                                                    *)
(***************************************************************************)
MaxEndpoints == 2      \* longest endpoint list handed to RegisterService
MaxCalls == 4          \* GetEndpoint calls counted, over all names, since their registration

Threads == {"t1", "t2"}        \* goroutines serving requests concurrently

(***************************************************************************)
(* router.ServiceRegistry                                                  *)
(***************************************************************************)
Names == {"auth-service", "go-api"}
Addrs == {"http://h1:8080", "http://h2:8080"}

RECURSIVE SeqsUpTo(_)
SeqsUpTo(n) ==
    IF n = 0 THEN {<<>>}
    ELSE LET shorter == SeqsUpTo(n - 1)
         IN  shorter \cup {Append(s, a) : s \in {x \in shorter : Len(x) = n - 1}, a \in Addrs}

EndpointLists == SeqsUpTo(MaxEndpoints)

VARIABLES
    services,    \* sr.services: name -> endpoint list (a Go map: partial)
    current,     \* sr.current:  name -> cursor        (a Go map: partial)
    mu,          \* sr.mu: "free" or the thread holding it
    regPc,       \* per thread: "idle", or where it is in the method that holds sr.mu
    regName,     \* per thread: the name argument of the call in progress
    regEnds,     \* per thread: GetEndpoint's local variable endpoints
    regIdx,      \* per thread: GetEndpoint's local variable idx
    calls,       \* history: GetEndpoint(name) calls returned since name's last registration
    lastRet,     \* history: what the latest GetEndpoint(name) returned
    returned,    \* history: per name, how often each address was returned since then
    lastBy,      \* history: the thread whose GetEndpoint call returned last
    lastReg      \* history: the latest RegisterService call: its arguments, and
                 \* the cursor the name had when it was made

regVars == <<services, current, mu, regPc, regName, regEnds, regIdx, calls, lastRet,
             returned, lastBy, lastReg>>

NoName == "-"
OutOfRange == "panic: index out of range"

RegInit ==
    /\ services = <<>>
    /\ current = <<>>
    /\ mu = "free"
    /\ regPc = [t \in Threads |-> "idle"]
    /\ regName = [t \in Threads |-> NoName]
    /\ regEnds = [t \in Threads |-> <<>>]
    /\ regIdx = [t \in Threads |-> 0]
    /\ calls = [n \in Names |-> 0]
    /\ lastRet = [n \in Names |-> "?"]
    /\ returned = [n \in Names |-> [a \in Addrs |-> 0]]
    /\ lastBy = NoName
    /\ lastReg = [name |-> NoName, endpoints |-> <<>>, cursor |-> 0]

\* m[k] = v on a Go map (adds the key when missing)
MapSetAll(m, k, v) == [x \in (DOMAIN m) \cup {k} |-> v]
MapSet(m, k, v) == [x \in (DOMAIN m) \cup {k} |-> IF x = k THEN v ELSE m[x]]

\* m[k] on a Go map of ints (0 when the key is missing)
MapGet(m, k) == IF k \in DOMAIN m THEN m[k] ELSE 0

\* sr.mu.Lock() at the head of RegisterService / GetEndpoint
RegLockFree(t, op, name) ==
    /\ regPc[t] = "idle"
    /\ mu' = t
    /\ regPc' = [regPc EXCEPT ![t] = op]
    /\ regName' = [regName EXCEPT ![t] = name]
    /\ UNCHANGED <<services, current, regEnds, regIdx, calls, lastRet, returned, lastBy,
                   lastReg>>
RegLock(t, op, name) ==
    /\ regPc[t] = "idle"
    /\ mu = "free"
    /\ mu' = t
    /\ regPc' = [regPc EXCEPT ![t] = op]
    /\ regName' = [regName EXCEPT ![t] = name]
    /\ UNCHANGED <<services, current, regEnds, regIdx, calls, lastRet, returned, lastBy,
                   lastReg>>

\* the deferred sr.mu.Unlock()
RegUnlock(t) ==
    /\ mu' = "free"
    /\ regPc' = [regPc EXCEPT ![t] = "idle"]
    /\ regName' = [regName EXCEPT ![t] = NoName]
    /\ regEnds' = [regEnds EXCEPT ![t] = <<>>]
    /\ regIdx' = [regIdx EXCEPT ![t] = 0]

\* sr.current[name] = 0 (idx: the cursor name had)
RegisterCursorKeep(idx) == idx
RegisterCursor(idx) == 0

\* RegisterService: the body under the lock
RegisterService(t, endpoints) ==
    /\ regPc[t] = "RegisterService"
    /\ services' = MapSet(services, regName[t], endpoints)
    /\ current' = MapSet(current, regName[t], RegisterCursor(MapGet(current, regName[t])))
    /\ calls' = [calls EXCEPT ![regName[t]] = 0]
    /\ lastRet' = [lastRet EXCEPT ![regName[t]] = "?"]
    /\ returned' = [returned EXCEPT ![regName[t]] = [a \in Addrs |-> 0]]
    /\ lastBy' = NoName
    /\ lastReg' = [name |-> regName[t], endpoints |-> endpoints,
                   cursor |-> MapGet(current, regName[t])]
    /\ RegUnlock(t)

\* the cursor GetEndpoint stores back (idx and len are 0-based / Go length)
NextCursorSkip(idx, len) == (idx + 2) % len
NextCursorPast(idx, len) == idx + 1
NextCursor(idx, len) == (idx + 1) % len

\* if !exists || len(endpoints) == 0
MissingUnknownOnly(name) == name \notin DOMAIN services
Missing(name) == name \notin DOMAIN services \/ Len(services[name]) = 0

\* endpoints[idx]: the element, or the run-time panic of an index out of range
Index(endpoints, idx) ==
    IF idx >= 0 /\ idx < Len(endpoints) THEN endpoints[idx + 1] ELSE OutOfRange

\* GetEndpoint returns ret to its caller
RegReturn(t, ret) ==
    LET name == regName[t]
    IN  /\ lastRet' = [lastRet EXCEPT ![name] = ret]
        /\ calls' = [calls EXCEPT ![name] = @ + 1]
        /\ returned' = IF ret \in Addrs
                       THEN [returned EXCEPT ![name][ret] = @ + 1] ELSE returned
        /\ lastBy' = t
        /\ RegUnlock(t)

\* history: the calls counted for the names in ns
RECURSIVE Counted(_)
Counted(ns) ==
    IF ns = {} THEN 0
    ELSE LET n == CHOOSE x \in ns : TRUE
         IN  calls[n] + Counted(ns \ {n})

\* GetEndpoint under the lock, up to idx := sr.current[name]: lines 101-107
GetEndpoint(t) ==
    LET name == regName[t]
    IN  /\ regPc[t] = "GetEndpoint"
        /\ Counted(Names) < MaxCalls
        /\ IF Missing(name)
           THEN /\ RegReturn(t, "")
                /\ UNCHANGED <<services, current>>
           ELSE /\ regEnds' = [regEnds EXCEPT ![t] = services[name]]
                /\ regIdx' = [regIdx EXCEPT ![t] = MapGet(current, name)]
                /\ regPc' = [regPc EXCEPT ![t] = "GetEndpoint.store"]
                /\ UNCHANGED <<services, current, mu, regName, calls, lastRet, returned,
                               lastBy>>
        /\ UNCHANGED lastReg

\* the rest of GetEndpoint: endpoint := endpoints[idx], the cursor stored back,
\* return endpoint: lines 108-111.  A panic unwinds through the deferred Unlock.
GetEndpointStore(t) ==
    LET name == regName[t]
        endpoint == Index(regEnds[t], regIdx[t])
    IN  /\ regPc[t] = "GetEndpoint.store"
        /\ IF endpoint = OutOfRange
           THEN UNCHANGED current
           ELSE current' = MapSet(current, name, NextCursor(regIdx[t], Len(regEnds[t])))
        /\ RegReturn(t, endpoint)
        /\ UNCHANGED <<services, lastReg>>


(***************************************************************************)
(* Time.  Timers are kept as the seconds left until they fire, and a tick  *)
(* takes TickStep seconds off every running timer.                         *)
(***************************************************************************)
TickStep == 15         \* seconds that pass in one tick

(***************************************************************************)
(* middleware.RateLimiter over a Redis keyspace                            *)
(***************************************************************************)
Limit == 2             \* rl.limit (main.go passes 100; the limiter takes any limit)
MaxExtra == 2          \* requests of one client answered in one window beyond Limit
Duration == 60         \* rl.duration: time.Minute

Clients == {"10.0.0.1", "10.0.0.2"}
Watched == "10.0.0.1"  \* the client whose history the model records
NoTTL == -1

\* an inbound request as the limiter sees it: the X-Real-IP header and r.RemoteAddr
Requests == [xRealIP : {""} \cup Clients, remoteAddr : Clients]

\* ip := r.Header.Get("X-Real-IP"); if ip == "" { ip = r.RemoteAddr }
ClientIP(req) == IF req.xRealIP = "" THEN req.remoteAddr ELSE req.xRealIP

RateLimitBody == "{\"error\":\"rate limit exceeded\",\"message\":\"too many requests\"}"

VARIABLES
    store,       \* Redis: client ip -> [val, ttl] of key "ratelimit:<ip>" (partial)
    rlPc,        \* per thread: "idle", or "incr" (GET done, pipeline not yet run)
    rlKey,       \* per thread: the client ip of the request in progress
    rlCount,     \* per thread: the local variable count
    rlLast,      \* what the limiter did with the request it answered last
    passed,      \* history: requests of Watched handed to next in its current window
    denied,      \* history: requests of Watched answered 429 in its current window
    overlap,     \* history: requests of Watched ran concurrently in this window
    storeErr,    \* history: the store failed a request of Watched in this window
    expired      \* history: a counter of Watched has expired

rlVars == <<store, rlPc, rlKey, rlCount, rlLast, passed, denied, overlap, storeErr, expired>>

NoRes == [client |-> NoName, next |-> 0, status |-> 0, body |-> "", err |-> FALSE]

RLInit ==
    /\ store = <<>>
    /\ rlPc = [t \in Threads |-> "idle"]
    /\ rlKey = [t \in Threads |-> NoName]
    /\ rlCount = [t \in Threads |-> 0]
    /\ rlLast = NoRes
    /\ passed = 0
    /\ denied = 0
    /\ overlap = FALSE
    /\ storeErr = FALSE
    /\ expired = FALSE

\* the requests of client c that are between their GET and their pipeline
InFlight(c) == {t \in Threads : rlPc[t] # "idle" /\ rlKey[t] = c}

\* rl.client.Get(ctx, key).Int(): a missing key gives redis.Nil and the value 0
GetCount(c) == IF c \in DOMAIN store THEN store[c].val ELSE 0

\* INCR key: a missing key is created with value 1 and no expiry
Incr(st, c) ==
    IF c \in DOMAIN st
    THEN [st EXCEPT ![c].val = @ + 1]
    ELSE MapSet(st, c, [val |-> 1, ttl |-> NoTTL])

\* EXPIRE key duration: no effect on a missing key
Expire(st, c) ==
    IF c \in DOMAIN st
    THEN [st EXCEPT ![c].ttl = Duration]
    ELSE st

\* the limiter has answered: the handler returns
RLFinish(t, res) ==
    /\ rlPc' = [rlPc EXCEPT ![t] = "idle"]
    /\ rlKey' = [rlKey EXCEPT ![t] = NoName]
    /\ rlCount' = [rlCount EXCEPT ![t] = 0]
    /\ rlLast' = res

\* next.ServeHTTP(w, r); return
RLPass(t, c, err) ==
    RLFinish(t, [client |-> c, next |-> 1, status |-> 0, body |-> "", err |-> err])

\* w.WriteHeader(http.StatusTooManyRequests); w.Write(...); return
RLDeny(t, c, err) ==
    RLFinish(t, [client |-> c, next |-> 0, status |-> 429, body |-> RateLimitBody, err |-> err])

\* the GET failed (err != nil && err != redis.Nil): lines 38-42
OnGetErrorDeny(t, c) == RLDeny(t, c, TRUE)
OnGetError(t, c) == RLPass(t, c, TRUE)

\* the pipeline failed: lines 58-62
OnExecErrorDeny(t, c) == RLDeny(t, c, TRUE)
OnExecError(t, c) == RLPass(t, c, TRUE)

\* the comparison that denies a request: line 44
OverLimitOffByOne(count) == count > Limit
OverLimit(count) == count >= Limit

\* the commands the pipeline queues: INCR, and EXPIRE when count == 0: lines 52-56
PipelineExpireLate(st, c, count) == IF count = 1 THEN Expire(Incr(st, c), c) ELSE Incr(st, c)
Pipeline(st, c, count) == IF count = 0 THEN Expire(Incr(st, c), c) ELSE Incr(st, c)

\* history: count the answer thread t has just given to a request of client c,
\* starting from the tallies p, d
RLTally(t, c, p, d) ==
    LET done == c = Watched /\ rlPc'[t] = "idle"
    IN  /\ passed' = p + (IF done THEN rlLast'.next ELSE 0)
        /\ denied' = d + (IF done /\ rlLast'.status = 429 THEN 1 ELSE 0)

\* the handler up to and including the limit check: lines 28-49.
\* getOk = FALSE: the GET returns an error other than redis.Nil.
RLGet(t, req, getOk) ==
    LET c == ClientIP(req)
        \* no counter and nobody at work on one: this request opens a window
        fresh == c \notin DOMAIN store /\ InFlight(c) = {}
    IN  /\ rlPc[t] = "idle"
        /\ c = Watched => (fresh \/ passed + denied < Limit + MaxExtra)
        /\ IF ~getOk THEN OnGetError(t, c)
           ELSE IF OverLimit(GetCount(c)) THEN RLDeny(t, c, FALSE)
           ELSE /\ rlPc' = [rlPc EXCEPT ![t] = "incr"]
                /\ rlKey' = [rlKey EXCEPT ![t] = c]
                /\ rlCount' = [rlCount EXCEPT ![t] = GetCount(c)]
                /\ UNCHANGED rlLast
        /\ LET opens == c = Watched /\ fresh
           IN  /\ RLTally(t, c, IF opens THEN 0 ELSE passed, IF opens THEN 0 ELSE denied)
               /\ overlap' = IF c = Watched THEN (~fresh /\ overlap) \/ InFlight(c) # {}
                              ELSE overlap
               /\ storeErr' = IF c = Watched THEN (~fresh /\ storeErr) \/ ~getOk
                               ELSE storeErr
        /\ UNCHANGED <<store, expired>>

\* the rest of the handler, the pipeline and the call of next: lines 51-64.
\* Redis runs the queued commands back to back.  outcome "ok": both applied;
\* "fail": none applied and Exec returns an error; "lost": applied, but Exec
\* returns an error (the reply never arrives); "cut": the connection breaks
\* after INCR, the rest is not applied and Exec returns an error.
RLExec(t, outcome) ==
    LET c == rlKey[t]
    IN  /\ rlPc[t] = "incr"
        /\ store' = CASE outcome = "fail" -> store
                      [] outcome = "cut" -> Incr(store, c)
                      [] OTHER -> Pipeline(store, c, rlCount[t])
        /\ IF outcome # "ok" THEN OnExecError(t, c) ELSE RLPass(t, c, FALSE)
        /\ RLTally(t, c, passed, denied)
        /\ storeErr' = (storeErr \/ (c = Watched /\ outcome # "ok"))
        /\ UNCHANGED <<overlap, expired>>

\* the keys Redis still holds after TickStep more seconds
Purge(st) ==
    LET keep == {c \in DOMAIN st : st[c].ttl = NoTTL \/ st[c].ttl > TickStep}
    IN  [c \in keep |-> IF st[c].ttl = NoTTL THEN st[c] ELSE [st[c] EXCEPT !.ttl = @ - TickStep]]

\* time passes in Redis
RLTick ==
    /\ store' = Purge(store)
    /\ LET gone == Watched \in (DOMAIN store) \ (DOMAIN store')
       IN  /\ passed' = IF gone THEN 0 ELSE passed
           /\ denied' = IF gone THEN 0 ELSE denied
           /\ overlap' = IF gone THEN InFlight(Watched) # {} ELSE overlap
           /\ storeErr' = IF gone THEN FALSE ELSE storeErr
           /\ expired' = (expired \/ gone)
    /\ UNCHANGED <<rlPc, rlKey, rlCount, rlLast>>

(***************************************************************************)
(* middleware.CircuitBreaker: a gobreaker.CircuitBreaker per backend,      *)
(* wrapped round the next handler by Middleware.                           *)
(*                                                                         *)
(* Generation numbers are kept relative: the breaker's own generation is   *)
(* always 0 in a state, and a request in flight remembers whether the      *)
(* generation it was admitted in is still the current one.  expiry is kept *)
(* as the seconds left until then (negative once it has passed).           *)
(***************************************************************************)
MaxTally == 5          \* requests tallied in one generation of a breaker
MaxAge == 90           \* the longest time in Open the history measures

Backends == {"auth-service"}
Statuses == {200, 404, 500, 502}    \* what the next handler writes with WriteHeader

\* gobreaker.Settings of NewCircuitBreaker, times in seconds
SettingsOneTrial == [MaxRequests |-> 1, Interval |-> 60, Timeout |-> 30]
SettingsFiveTrials == [MaxRequests |-> 5, Interval |-> 60, Timeout |-> 30]
SettingsNoTimeout == [MaxRequests |-> 3, Interval |-> 60, Timeout |-> 0]
SettingsLongTimeout == [MaxRequests |-> 3, Interval |-> 60, Timeout |-> 60]
Settings == [MaxRequests |-> 3, Interval |-> 60, Timeout |-> 30]

\* ReadyToTrip: Requests >= 3 && TotalFailures/Requests >= 0.6
ReadyToTripTwo(counts) ==
    counts.Requests >= 2 /\ 5 * counts.TotalFailures >= 3 * counts.Requests
ReadyToTripFour(counts) ==
    counts.Requests >= 4 /\ 5 * counts.TotalFailures >= 3 * counts.Requests
ReadyToTrip(counts) ==
    counts.Requests >= 3 /\ 5 * counts.TotalFailures >= 3 * counts.Requests

\* if crw.statusCode >= 500 { return nil, http.ErrAbortHandler }
FnFailsAbove500(status) == status > 500
FnFails(status) == status >= 500

\* what the forwarder gets from the backend: a response with a status, or a
\* transport error of the round trip
TransportErrors == {"refused", "timeout"}
BackendOutcomes ==
    [kind : {"response"}, status : Statuses] \cup [kind : TransportErrors, status : {0}]

\* proxy.ServeHTTP(w, r): the backend's response is copied to w; on a transport
\* error httputil.ReverseProxy's default ErrorHandler writes 502 Bad Gateway
ProxyAnswerSilent(outcome) ==
    IF outcome.kind = "response"
    THEN [status |-> outcome.status, body |-> "downstream"]
    ELSE [status |-> 200, body |-> ""]
ProxyAnswer(outcome) ==
    IF outcome.kind = "response"
    THEN [status |-> outcome.status, body |-> "downstream"]
    ELSE [status |-> 502, body |-> ""]

BreakerOpenBody == "{\"error\":\"service unavailable\",\"message\":\"circuit breaker is open\"}"

\* what Middleware writes itself for the error Execute returned: lines 51-58.
\* Nothing is written for any error but ErrOpenState; net/http then sends 200.
OnExecuteError(err) ==
    IF err = "ErrOpenState"
    THEN [status |-> 503, body |-> BreakerOpenBody]
    ELSE [status |-> 200, body |-> ""]

ZeroCounts == [Requests |-> 0, TotalSuccesses |-> 0, TotalFailures |-> 0,
               ConsecutiveSuccesses |-> 0, ConsecutiveFailures |-> 0]
ZeroTime == [zero |-> TRUE, left |-> 0]
In(seconds) == [zero |-> FALSE, left |-> seconds]

\* expiry.Before(now)
Passed(expiry) == expiry.left < 0

\* gobreaker toNewGeneration
ToNewGeneration(c) ==
    [c EXCEPT !.generation = @ + 1,
              !.counts = ZeroCounts,
              !.expiry = CASE c.state = "closed" ->
                                IF Settings.Interval = 0 THEN ZeroTime ELSE In(Settings.Interval)
                           [] c.state = "open" -> In(Settings.Timeout)
                           [] OTHER -> ZeroTime]

\* gobreaker setState
SetStateKeepCounts(c, state) ==
    IF c.state = state THEN c
    ELSE [ToNewGeneration([c EXCEPT !.state = state]) EXCEPT !.counts = c.counts]
SetState(c, state) ==
    IF c.state = state THEN c ELSE ToNewGeneration([c EXCEPT !.state = state])

\* gobreaker currentState
CurrentState(c) ==
    CASE c.state = "closed" /\ ~c.expiry.zero /\ Passed(c.expiry) -> ToNewGeneration(c)
      [] c.state = "open" /\ Passed(c.expiry) -> SetState(c, "half-open")
      [] OTHER -> c

\* gobreaker Counts.onRequest, onSuccess, onFailure
CountRequest(counts) == [counts EXCEPT !.Requests = @ + 1]
CountSuccess(counts) ==
    [counts EXCEPT !.TotalSuccesses = @ + 1, !.ConsecutiveSuccesses = @ + 1,
                   !.ConsecutiveFailures = 0]
CountFailure(counts) ==
    [counts EXCEPT !.TotalFailures = @ + 1, !.ConsecutiveFailures = @ + 1,
                   !.ConsecutiveSuccesses = 0]

\* gobreaker onSuccess, onFailure (c is what currentState returned)
OnSuccess(c) ==
    CASE c.state = "closed" -> [c EXCEPT !.counts = CountSuccess(@)]
      [] c.state = "half-open" ->
            LET d == [c EXCEPT !.counts = CountSuccess(@)]
            IN  IF d.counts.ConsecutiveSuccesses >= Settings.MaxRequests
                THEN SetState(d, "closed") ELSE d
      [] OTHER -> c
OnFailure(c) ==
    CASE c.state = "closed" ->
            LET d == [c EXCEPT !.counts = CountFailure(@)]
            IN  IF ReadyToTrip(d.counts) THEN SetState(d, "open") ELSE d
      [] c.state = "half-open" -> SetState(c, "open")
      [] OTHER -> c

\* gobreaker beforeRequest: the error it returns ("" for nil) and the breaker after it
BeforeRequest(c) ==
    LET d == CurrentState(c)
    IN  IF d.state = "open" THEN [err |-> "ErrOpenState", cb |-> d]
        ELSE IF d.state = "half-open" /\ d.counts.Requests >= Settings.MaxRequests
        THEN [err |-> "ErrTooManyRequests", cb |-> d]
        ELSE [err |-> "", cb |-> [d EXCEPT !.counts = CountRequest(@)]]

\* gobreaker afterRequest; same: the request's generation was the breaker's on entry
AfterRequest(c, same, success) ==
    LET d == CurrentState(c)
    IN  IF ~same \/ d.generation # c.generation THEN d
        ELSE IF success THEN OnSuccess(d) ELSE OnFailure(d)

VARIABLES
    cb,          \* per backend: the gobreaker state [state, generation, counts, expiry]
    cbPc,        \* per thread: "idle", or "next" (inside next.ServeHTTP under Execute)
    cbFor,       \* per thread: the backend of the request in progress
    cbBefore,    \* per thread: the generation the request was admitted in is current
    cbLast,      \* the latest answer a breaker middleware let out to a caller
    cbOld,       \* history, per thread: the breaker changed state since the admission
    streak,      \* history: failed requests in a row since the tally was empty (-1: none)
    aged,        \* history: the tally's Interval ran out during the streak
    openAge,     \* history: seconds since the breaker entered Open
    trialOK,     \* history: trials of the latest HalfOpen episode that have succeeded
    tripTally,   \* history: the counts ReadyToTrip saw when a Closed breaker last opened
    cbCause,     \* history: the backend outcome behind cbLast (NoOutcome for a refusal)
    trials       \* history: requests passed to next in the current HalfOpen episode

cbVars == <<cb, cbPc, cbFor, cbBefore, cbLast, cbOld, streak, aged, openAge, trialOK,
            tripTally, cbCause, trials>>

NoOutcome == [kind |-> "none", status |-> 0]
NoAnswer == [kind |-> "none", next |-> 0, status |-> 0, body |-> ""]

\* gobreaker.NewCircuitBreaker(settings): Closed, generation started now
NewBreaker == ToNewGeneration([state |-> "closed", generation |-> -1,
                               counts |-> ZeroCounts, expiry |-> ZeroTime])

CBInit ==
    /\ cb = [b \in Backends |-> NewBreaker]
    /\ cbPc = [t \in Threads |-> "idle"]
    /\ cbFor = [t \in Threads |-> NoName]
    /\ cbBefore = [t \in Threads |-> FALSE]
    /\ cbLast = NoAnswer
    /\ cbOld = [t \in Threads |-> FALSE]
    /\ streak = 0
    /\ aged = FALSE
    /\ openAge = 0
    /\ trialOK = 0
    /\ tripTally = ZeroCounts
    /\ cbCause = NoOutcome
    /\ trials = 0

\* the requests of backend b that are inside next.ServeHTTP
Running(b) == {t \in Threads : cbPc[t] = "next" /\ cbFor[t] = b}

\* store breaker d for backend b with its generation renumbered to 0, and tell
\* the requests in flight when their generation is no longer the current one;
\* the requests in entering take the generation of d, those in leaving are over
CBStore(b, d, entering, leaving) ==
    /\ cb' = [cb EXCEPT ![b] = [d EXCEPT !.generation = 0]]
    /\ cbBefore' = [t \in Threads |->
                       CASE t \in entering -> TRUE
                         [] t \in leaving -> FALSE
                         [] t \in Running(b) /\ d.generation # 0 -> FALSE
                         [] OTHER -> cbBefore[t]]

\* numbers the claims about the breaker speak of
TripAfter == 3         \* failed requests in a row that open a breaker
OpenTimeout == 30      \* seconds a breaker stays Open
TrialQuota == 3        \* successful trials that close a HalfOpen breaker

\* history kept along a step that takes the breaker of b from c to d
CBHistory(b, c, d) ==
    /\ cbOld' = [t \in Threads |->
                    IF t \in Running(b) THEN cbOld[t] \/ c.state # d.state ELSE FALSE]
    /\ openAge' = IF c.state = "open" /\ d.state = "open" THEN openAge ELSE 0

\* Middleware up to the call of next: cb.breaker.Execute runs beforeRequest,
\* and either fn starts (next.ServeHTTP) or Execute returns the error: lines 38-58
CBBegin(t, b) ==
    LET c == cb[b]
        r == BeforeRequest(c)
        d == r.cb
        admitted == r.err = ""
        cleared == d.state = "closed" /\ d.generation # c.generation
    IN  /\ cbPc[t] = "idle"
        /\ c.counts.Requests < MaxTally
        /\ CBStore(b, d, IF admitted THEN {t} ELSE {}, {})
        /\ CBHistory(b, c, d)
        /\ trialOK' = IF c.state # "half-open" /\ d.state = "half-open" THEN 0 ELSE trialOK
        /\ IF admitted
           THEN /\ cbPc' = [cbPc EXCEPT ![t] = "next"]
                /\ cbFor' = [cbFor EXCEPT ![t] = b]
                /\ UNCHANGED cbLast
                /\ streak' = CASE d.state # "closed" \/ Running(b) # {} -> -1
                               [] streak = -1 -> IF d.counts.Requests = 1 THEN 0 ELSE -1
                               [] OTHER -> streak
                /\ aged' = (streak' >= 1 /\ (aged \/ cleared))
           ELSE /\ cbLast' = [kind |-> "reject", next |-> 0] @@ OnExecuteError(r.err)
                /\ UNCHANGED <<cbPc, cbFor, streak, aged>>
        /\ cbCause' = IF admitted THEN cbCause ELSE NoOutcome
        /\ trials' = CASE d.state # "half-open" -> 0
                       [] c.state # "half-open" -> IF admitted THEN 1 ELSE 0
                       [] OTHER -> IF admitted THEN trials + 1 ELSE trials
        /\ UNCHANGED tripTally

\* next.ServeHTTP returns, the forwarder having written its answer through crw;
\* fn returns, Execute runs afterRequest and Middleware returns: lines 41-59
CBEnd(t, outcome) ==
    LET b == cbFor[t]
        c == cb[b]
        answer == ProxyAnswer(outcome)
        status == answer.status
        d == AfterRequest(c, cbBefore[t], ~FnFails(status))
        e == CurrentState(c)
        cleared == d.state = "closed" /\ c.state = "closed" /\ d.generation # c.generation
    IN  /\ cbPc[t] = "next"
        /\ CBStore(b, d, {}, {t})
        /\ cbPc' = [cbPc EXCEPT ![t] = "idle"]
        /\ cbFor' = [cbFor EXCEPT ![t] = NoName]
        /\ cbLast' = [kind |-> "end", next |-> 1, status |-> status, body |-> answer.body]
        /\ cbCause' = outcome
        /\ tripTally' = IF e.state = "closed" /\ d.state = "open"
                        THEN CountFailure(e.counts) ELSE tripTally
        /\ cbOld' = [u \in Threads |->
                        IF u \in Running(b) \ {t} THEN cbOld[u] \/ c.state # d.state ELSE FALSE]
        /\ openAge' = IF c.state = "open" /\ d.state = "open" THEN openAge ELSE 0
        /\ trialOK' = CASE c.state # "half-open" /\ d.state = "half-open" -> 0
                        [] c.state = "half-open" /\ ~cbOld[t] /\ status < 500 -> trialOK + 1
                        [] OTHER -> trialOK
        /\ streak' = IF streak >= 0 /\ status >= 500 /\ c.state # "half-open"
                     THEN (IF streak < TripAfter THEN streak + 1 ELSE streak)
                     ELSE -1
        /\ aged' = (streak' >= 1 /\ (aged \/ cleared))
        /\ trials' = IF c.state = "half-open" /\ d.state = "half-open" THEN trials ELSE 0

\* time passes for the breakers
CBTick ==
    /\ cb' = [b \in Backends |->
                 IF cb[b].expiry.zero \/ Passed(cb[b].expiry) THEN cb[b]
                 ELSE [cb[b] EXCEPT !.expiry.left = @ - TickStep]]
    /\ openAge' = IF \E b \in Backends : cb[b].state = "open"
                  THEN (IF openAge + TickStep > MaxAge THEN openAge ELSE openAge + TickStep)
                  ELSE 0
    /\ UNCHANGED <<cbPc, cbFor, cbBefore, cbLast, cbOld, streak, aged, trialOK,
                   tripTally, cbCause, trials>>

(***************************************************************************)
(* The gateway's routes (main.go): behind the CORS handler, each route     *)
(* group chains the rate limiter, for /api/v1/data the authenticator, the  *)
(* breaker of its backend, and the forwarder made by createProxy.          *)
(*                                                                         *)
(* The model follows the requests of one client to one route group, the    *)
(* group of the first request, one request at a time.                      *)
(***************************************************************************)
Routes == {"/api/v1/auth", "/api/v1/data", "/api/v1/process"}

\* r.Use(cors.Handler(...)) on the router, then the r.Use calls and the handler
\* of the route group, in the order the middlewares wrap each other
ChainBreakerFirst(route) ==
    CASE route = "/api/v1/auth" -> <<"cors", "ratelimit", "breaker", "forward">>
      [] route = "/api/v1/data" -> <<"cors", "ratelimit", "breaker", "authenticate", "forward">>
      [] route = "/api/v1/process" -> <<"cors", "ratelimit", "breaker", "forward">>
      [] route = "/health" -> <<"cors", "health">>
      [] OTHER -> <<>>
ChainHealthLimited(route) ==
    CASE route = "/api/v1/auth" -> <<"cors", "ratelimit", "breaker", "forward">>
      [] route = "/api/v1/data" -> <<"cors", "ratelimit", "authenticate", "breaker", "forward">>
      [] route = "/api/v1/process" -> <<"cors", "ratelimit", "breaker", "forward">>
      [] route = "/health" -> <<"cors", "ratelimit", "health">>
      [] OTHER -> <<>>
Chain(route) ==
    CASE route = "/api/v1/auth" -> <<"cors", "ratelimit", "breaker", "forward">>
      [] route = "/api/v1/data" -> <<"cors", "ratelimit", "authenticate", "breaker", "forward">>
      [] route = "/api/v1/process" -> <<"cors", "ratelimit", "breaker", "forward">>
      [] route = "/health" -> <<"cors", "health">>
      [] OTHER -> <<>>

\* the address createProxy(targetURL) is called with for a route group: the
\* defaults of AUTH_SERVICE_URL, GO_API_SERVICE_URL, PYTHON_SERVICE_URL
TargetURL(route) ==
    CASE route = "/api/v1/auth" -> "http://auth-service:8082"
      [] route = "/api/v1/data" -> "http://go-api:8080"
      [] route = "/api/v1/process" -> "http://python-processor:8081"
      [] OTHER -> ""

\* the body the /health handler writes
HealthBody == "{\"status\":\"healthy\",\"service\":\"api-gateway\"}"

\* the backend a route group's breaker and forwarder are made for
BackendOf(route) ==
    CASE route = "/api/v1/auth" -> "auth-service"
      [] route = "/api/v1/data" -> "go-api"
      [] route = "/api/v1/process" -> "python-processor"
      [] OTHER -> NoName

\* a JWT as jwt.Parse sees it: the alg of its header, the key that signed it
\* and its exp claim relative to now
GoodToken == [alg |-> "HS256", key |-> "shared", exp |-> "later"]
OtherSecret == [alg |-> "HS256", key |-> "other", exp |-> "later"]
OtherAlg == [alg |-> "RS256", key |-> "other", exp |-> "later"]
ExpiredToken == [alg |-> "HS256", key |-> "shared", exp |-> "past"]
NoExpToken == [alg |-> "HS256", key |-> "shared", exp |-> "none"]
Tokens == {GoodToken, OtherSecret, OtherAlg, ExpiredToken, NoExpToken}

\* an Authorization header: the pieces strings.Split(authHeader, " ") gives
\* (none for a missing header), the first piece and the last
NoAuth == [parts |-> 0, scheme |-> "", token |-> GoodToken]
AuthHeaders ==
    {NoAuth}
    \cup [parts : {2}, scheme : {"Bearer"}, token : Tokens]
    \cup [parts : {2}, scheme : {"Basic"}, token : {GoodToken}]
    \cup [parts : {3}, scheme : {"Bearer"}, token : {GoodToken}]

\* an inbound request: its method, whether it carries the header
\* Access-Control-Request-Method, and its Authorization header
GwRequests ==
    [method : {"GET"}, acrm : {FALSE}, auth : AuthHeaders]
    \cup [method : {"OPTIONS"}, acrm : BOOLEAN, auth : AuthHeaders]
NoRequest == [method |-> "", acrm |-> FALSE, auth |-> NoAuth]

\* cors.Handler without OptionsPassthrough: a preflight request (OPTIONS with
\* Access-Control-Request-Method) is answered with 200 and next is not called
CorsAnswers(req) == req.method = "OPTIONS" /\ req.acrm

\* jwt.Parse(tokenString, keyFunc): the error it returns ("" for nil).  keyFunc
\* refuses a method that is not HMAC; the signature is verified with the shared
\* secret; the registered claims are validated, exp only when it is present.
ParseTokenAnyExp(token) ==
    CASE token.alg # "HS256" -> "token is unverifiable"
      [] token.key # "shared" -> "signature is invalid"
      [] OTHER -> ""
ParseToken(token) ==
    CASE token.alg # "HS256" -> "token is unverifiable"
      [] token.key # "shared" -> "signature is invalid"
      [] token.exp = "past" -> "token is expired"
      [] OTHER -> ""

\* Authenticate up to its decision: "" when next is called, else the message
\* handed to jm.unauthorized: part_000 lines 24-67
Authenticate(auth) ==
    CASE auth.parts = 0 -> "missing authorization header"
      [] auth.parts # 2 \/ auth.scheme # "Bearer" -> "invalid authorization header format"
      [] ParseToken(auth.token) # "" -> "invalid token"
      [] OTHER -> ""

\* jm.unauthorized(w, message): part_000 lines 71-75
UnauthorizedBody(message) ==
    "{\"error\":\"unauthorized\",\"message\":\"" \o message \o "\"}"

\* the round trips to the backend one proxy.ServeHTTP makes: one, whatever comes of it
ForwardCallsRetry(outcome) ==
    IF outcome.kind = "response" /\ outcome.status < 500 THEN 1 ELSE 2
ForwardCalls(outcome) == 1

\* createProxy's handler answers OPTIONS itself: main.go lines 167-170
AnswersOptionsNever(method) == FALSE
AnswersOptions(method) == method = "OPTIONS"

VARIABLES
    gwRoute,     \* the route group the model follows (NoName before the first request)
    gwStore,     \* Redis: the rate-limit counter of the client, as store
    gwCb,        \* the gobreaker state of the route group's breaker
    gwReq,       \* the request in progress, or the last one answered
    gwAt,        \* position in Chain(gwRoute) of the stage to run next (0: no request)
    gwRan,       \* history: stages of the chain that ran for gwReq
    gwAns,       \* the answer to gwReq: status, body, and calls of the backend made
    gwSentTo,    \* history: the address gwReq was forwarded to ("" when it was not)
    gwHealth     \* the answer to a GET /health made since gwReq arrived (NoAns: none)

gwVars == <<gwRoute, gwStore, gwCb, gwReq, gwAt, gwRan, gwAns, gwSentTo, gwHealth>>

NoAns == [status |-> 0, body |-> "", backend |-> 0]

GWInit ==
    /\ gwRoute = NoName
    /\ gwStore = <<>>
    /\ gwCb = NewBreaker
    /\ gwReq = NoRequest
    /\ gwAt = 0
    /\ gwRan = 0
    /\ gwAns = NoAns
    /\ gwSentTo = ""
    /\ gwHealth = NoAns

\* the stage a request is at
Stage(name) == gwAt > 0 /\ Chain(gwRoute)[gwAt] = name

\* a stage calls next.ServeHTTP
GWPassOn ==
    /\ gwAt' = gwAt + 1
    /\ gwRan' = gwRan + 1
    /\ UNCHANGED <<gwRoute, gwReq, gwAns, gwHealth>>

\* a stage writes the answer and the handlers return
GWAnswer(ans) ==
    /\ gwAt' = 0
    /\ gwRan' = gwRan + 1
    /\ gwAns' = ans
    /\ UNCHANGED <<gwRoute, gwReq, gwHealth>>

\* the router receives a request for a route group
GWArrive(route, req) ==
    /\ gwAt = 0
    /\ gwRoute \in {NoName, route}
    /\ gwCb.counts.Requests < MaxTally
    /\ gwRoute' = route
    /\ gwReq' = req
    /\ gwAt' = 1
    /\ gwRan' = 0
    /\ gwAns' = NoAns
    /\ gwSentTo' = ""
    /\ gwHealth' = NoAns
    /\ UNCHANGED <<gwStore, gwCb>>

\* cors.Handler: main.go lines 64-71
GWCors ==
    /\ Stage("cors")
    /\ IF CorsAnswers(gwReq) THEN GWAnswer([status |-> 200, body |-> "", backend |-> 0])
       ELSE GWPassOn
    /\ UNCHANGED <<gwStore, gwCb, gwSentTo>>

\* rateLimiter.RateLimit with the store answering: GET, the limit check, the pipeline
GWRateLimit ==
    LET c == Watched
        count == IF c \in DOMAIN gwStore THEN gwStore[c].val ELSE 0
    IN  /\ Stage("ratelimit")
        /\ IF OverLimit(count)
           THEN /\ GWAnswer([status |-> 429, body |-> RateLimitBody, backend |-> 0])
                /\ UNCHANGED gwStore
           ELSE /\ gwStore' = Pipeline(gwStore, c, count)
                /\ GWPassOn
        /\ UNCHANGED <<gwCb, gwSentTo>>

\* jwtMiddleware.Authenticate
GWAuthenticate ==
    LET message == Authenticate(gwReq.auth)
    IN  /\ Stage("authenticate")
        /\ IF message = "" THEN GWPassOn
           ELSE GWAnswer([status |-> 401, body |-> UnauthorizedBody(message), backend |-> 0])
        /\ UNCHANGED <<gwStore, gwCb, gwSentTo>>

\* the breaker's Middleware up to the call of next: Execute runs beforeRequest
GWBreaker ==
    LET r == BeforeRequest(gwCb)
    IN  /\ Stage("breaker")
        /\ gwCb' = [r.cb EXCEPT !.generation = 0]
        /\ IF r.err = "" THEN GWPassOn
           ELSE GWAnswer(OnExecuteError(r.err) @@ [backend |-> 0])
        /\ UNCHANGED <<gwStore, gwSentTo>>

\* createProxy's handler, then the return through the breaker's Middleware:
\* fn looks at crw.statusCode and Execute runs afterRequest
GWForward(outcome) ==
    LET direct == AnswersOptions(gwReq.method)
        answer == IF direct THEN [status |-> 200, body |-> ""] ELSE ProxyAnswer(outcome)
        after == AfterRequest(gwCb, TRUE, ~FnFails(answer.status))
    IN  /\ Stage("forward")
        /\ GWAnswer(answer @@ [backend |-> IF direct THEN 0 ELSE ForwardCalls(outcome)])
        /\ gwSentTo' = IF direct THEN "" ELSE TargetURL(gwRoute)
        /\ gwCb' = [after EXCEPT !.generation = 0]
        /\ UNCHANGED gwStore

\* time passes for Redis and for the breaker
GWTick ==
    /\ gwStore' = Purge(gwStore)
    /\ gwCb' = IF gwCb.expiry.zero \/ Passed(gwCb.expiry) THEN gwCb
               ELSE [gwCb EXCEPT !.expiry.left = @ - TickStep]
    /\ gwStore' # gwStore \/ gwCb' # gwCb
    /\ UNCHANGED <<gwRoute, gwReq, gwAt, gwRan, gwAns, gwSentTo, gwHealth>>

\* GET /health: the stages of its chain, run in one go.  Behind the CORS
\* handler, which passes a GET on, there is the handler alone: main.go lines 74-78
GWHealth ==
    LET chain == Chain("/health")
        limited == \E i \in DOMAIN chain : chain[i] = "ratelimit"
        c == Watched
        count == IF c \in DOMAIN gwStore THEN gwStore[c].val ELSE 0
    IN  /\ gwAt = 0
        /\ gwHealth = NoAns
        /\ IF limited /\ OverLimit(count)
           THEN /\ gwHealth' = [status |-> 429, body |-> RateLimitBody, backend |-> 0]
                /\ UNCHANGED gwStore
           ELSE /\ gwHealth' = [status |-> 200, body |-> HealthBody, backend |-> 0]
                /\ gwStore' = IF limited THEN Pipeline(gwStore, c, count) ELSE gwStore
        /\ UNCHANGED <<gwRoute, gwCb, gwReq, gwAt, gwRan, gwAns, gwSentTo>>

(***************************************************************************)
(* The three breakers of main.go side by side: authCB, goAPICB, pythonCB,  *)
(* each wrapped round the forwarder of its own route group.  Requests are  *)
(* taken through Execute one at a time.                                    *)
(***************************************************************************)
IsoBackends == {BackendOf(route) : route \in Routes}

\* requests in the tallies of the three breakers together
MaxIsoTally == 3

\* the breaker whose Middleware a route group uses
BreakerShared(route) == "auth-service"
BreakerOf(route) == BackendOf(route)

VARIABLES
    isoCb,       \* per backend: the gobreaker state of its breaker
    isoLast      \* the route and the status of the request answered last
                 \* (NoIso when time has passed since)

isoVars == <<isoCb, isoLast>>

NoIso == [route |-> NoName, status |-> 0]

IsoInit ==
    /\ isoCb = [b \in IsoBackends |-> NewBreaker]
    /\ isoLast = NoIso

\* history: the requests in the tallies of the breakers in bs
RECURSIVE Tallied(_)
Tallied(bs) ==
    IF bs = {} THEN 0
    ELSE LET b == CHOOSE x \in bs : TRUE
         IN  isoCb[b].counts.Requests + Tallied(bs \ {b})

\* a request on a route group goes through the Middleware of its breaker:
\* beforeRequest, the forwarder, afterRequest
IsoServe(route, outcome) ==
    LET b == BreakerOf(route)
        r == BeforeRequest(isoCb[b])
        answer == IF r.err = "" THEN ProxyAnswer(outcome) ELSE OnExecuteError(r.err)
        after == IF r.err = "" THEN AfterRequest(r.cb, TRUE, ~FnFails(answer.status))
                 ELSE r.cb
    IN  /\ Tallied(IsoBackends) < MaxIsoTally
        /\ isoCb' = [isoCb EXCEPT ![b] = [after EXCEPT !.generation = 0]]
        /\ isoLast' = [route |-> route, status |-> answer.status]

\* time passes for the breakers
IsoTick ==
    /\ isoCb' = [b \in IsoBackends |->
                    IF isoCb[b].expiry.zero \/ Passed(isoCb[b].expiry) THEN isoCb[b]
                    ELSE [isoCb[b] EXCEPT !.expiry.left = @ - TickStep]]
    /\ isoCb' # isoCb
    /\ isoLast' = NoIso

(***************************************************************************)
(* Shutdown (main.go): the server runs in a goroutine; main waits for      *)
(* SIGINT or SIGTERM, then calls srv.Shutdown under a context that is      *)
(* cancelled after 30 s.  Shutdown closes the listener and the idle        *)
(* connections, then waits until no connection is serving a request; it    *)
(* returns the context's error when the deadline comes first, and main     *)
(* then leaves through log.Fatalf.                                         *)
(***************************************************************************)
MaxStarted == 3        \* requests the server starts to serve

DrainWindow == 30      \* context.WithTimeout(context.Background(), 30*time.Second)

SDConns == {"k1", "k2", "k3"}

ServerExited == "Server exited"
ServerForced == "Server forced to shutdown"

\* the context of Shutdown is done
DeadlineNever(left) == FALSE
DeadlinePassed(left) == left = 0

VARIABLES
    sdPhase,     \* "serving", "draining" (inside srv.Shutdown), "exited"
    sdConn,      \* per connection: "none", "idle" (kept alive), "active"
    sdLeft,      \* seconds left of the context of Shutdown
    sdLog,       \* the last line main logs
    sdStarted,   \* history: requests the server began to serve
    sdDrained,   \* history: requests that finished while draining
    sdCut        \* history: requests cut off by the exit of the process

sdVars == <<sdPhase, sdConn, sdLeft, sdLog, sdStarted, sdDrained, sdCut>>

SDInit ==
    /\ sdPhase = "serving"
    /\ sdConn = [k \in SDConns |-> "none"]
    /\ sdLeft = DrainWindow
    /\ sdLog = ""
    /\ sdStarted = 0
    /\ sdDrained = 0
    /\ sdCut = 0

Serving == {k \in SDConns : sdConn[k] = "active"}

\* ListenAndServe accepts a connection, or a kept-alive connection sends its
\* next request; the listener and the idle connections exist only until
\* Shutdown closes them
SDAccept(k) ==
    /\ sdPhase = "serving"
    /\ sdConn[k] \in {"none", "idle"}
    /\ sdStarted < MaxStarted
    /\ sdConn' = [sdConn EXCEPT ![k] = "active"]
    /\ sdStarted' = sdStarted + 1
    /\ UNCHANGED <<sdPhase, sdLeft, sdLog, sdDrained, sdCut>>

\* a request is answered; the connection is kept alive unless the server is
\* shutting down
SDFinish(k) ==
    /\ sdPhase # "exited"
    /\ sdConn[k] = "active"
    /\ sdConn' = [sdConn EXCEPT ![k] = IF sdPhase = "serving" THEN "idle" ELSE "none"]
    /\ sdDrained' = IF sdPhase = "draining" THEN sdDrained + 1 ELSE sdDrained
    /\ UNCHANGED <<sdPhase, sdLeft, sdLog, sdStarted, sdCut>>

\* an idle connection is closed by its client or by IdleTimeout
SDClose(k) ==
    /\ sdPhase = "serving"
    /\ sdConn[k] = "idle"
    /\ sdConn' = [sdConn EXCEPT ![k] = "none"]
    /\ UNCHANGED <<sdPhase, sdLeft, sdLog, sdStarted, sdDrained, sdCut>>

\* <-quit, then srv.Shutdown(ctx) begins: listener and idle connections closed
SDSignal ==
    /\ sdPhase = "serving"
    /\ sdPhase' = "draining"
    /\ sdLog' = "Shutting down server..."
    /\ sdLeft' = DrainWindow
    /\ sdConn' = [k \in SDConns |-> IF sdConn[k] = "active" THEN "active" ELSE "none"]
    /\ UNCHANGED <<sdStarted, sdDrained, sdCut>>

\* time passes while Shutdown waits
SDTick ==
    /\ sdPhase = "draining"
    /\ sdLeft > 0
    /\ sdLeft' = IF sdLeft > TickStep THEN sdLeft - TickStep ELSE 0
    /\ UNCHANGED <<sdPhase, sdConn, sdLog, sdStarted, sdDrained, sdCut>>

\* Shutdown returns nil once no connection is serving: main returns
SDExit ==
    /\ sdPhase = "draining"
    /\ Serving = {}
    /\ sdPhase' = "exited"
    /\ sdLog' = ServerExited
    /\ UNCHANGED <<sdConn, sdLeft, sdStarted, sdDrained, sdCut>>

\* Shutdown returns ctx.Err(): log.Fatalf ends the process with the requests
\* still being served
SDForced ==
    /\ sdPhase = "draining"
    /\ DeadlinePassed(sdLeft)
    /\ sdPhase' = "exited"
    /\ sdLog' = ServerForced
    /\ sdCut' = Cardinality(Serving)
    /\ sdConn' = [k \in SDConns |-> "none"]
    /\ UNCHANGED <<sdLeft, sdStarted, sdDrained>>

(***************************************************************************)
(* The one RateLimiter of main.go in front of the three route groups:      *)
(* r.Use(rateLimiter.RateLimit) in each of them, over the same Redis.      *)
(* Requests are taken through the limiter one at a time, the store         *)
(* answering every command.                                                *)
(***************************************************************************)
\* key := fmt.Sprintf("ratelimit:%s", ip), whatever the route
RateLimitKeyPerRoute(route, ip) == "ratelimit:" \o route \o ":" \o ip
RateLimitKey(route, ip) == "ratelimit:" \o ip

VARIABLES
    mixStore,    \* Redis: key -> [val, ttl]
    mixLast,     \* the request answered last: its route, the address it came
                 \* from, the client ip the limiter took for it, and the status
    mixAllowed,  \* history: requests the limiter passed on for client Watched
                 \* since a request of that client last found no counter for it
    mixRoutes,   \* history: the route groups of those requests
    mixBurst     \* history: requests from address Watched that the limiter
                 \* passed on since time last moved

mixVars == <<mixStore, mixLast, mixAllowed, mixRoutes, mixBurst>>

NoMix == [route |-> NoName, remoteAddr |-> NoName, client |-> NoName, status |-> 0]

MixInit ==
    /\ mixStore = <<>>
    /\ mixLast = NoMix
    /\ mixAllowed = 0
    /\ mixRoutes = {}
    /\ mixBurst = 0

\* the counters the store holds for a client ip
CountersOf(ip) == {RateLimitKey(route, ip) : route \in Routes} \cap DOMAIN mixStore

\* RateLimit for a request to a route group: lines 28-64
MixServe(route, req) ==
    LET ip == ClientIP(req)
        key == RateLimitKey(route, ip)
        count == IF key \in DOMAIN mixStore THEN mixStore[key].val ELSE 0
        deny == OverLimit(count)
        opens == CountersOf(ip) = {}
    IN  /\ mixStore' = IF deny THEN mixStore ELSE Pipeline(mixStore, key, count)
        /\ mixLast' = [route |-> route, remoteAddr |-> req.remoteAddr, client |-> ip,
                       status |-> IF deny THEN 429 ELSE 200]
        /\ IF ip = Watched /\ ~deny
           THEN /\ mixAllowed' = IF opens THEN 1 ELSE mixAllowed + 1
                /\ mixRoutes' = IF opens THEN {route} ELSE mixRoutes \cup {route}
           ELSE UNCHANGED <<mixAllowed, mixRoutes>>
        /\ mixBurst' = IF req.remoteAddr = Watched /\ ~deny THEN mixBurst + 1 ELSE mixBurst

\* time passes in Redis
MixTick ==
    /\ mixStore # <<>>
    /\ mixStore' = Purge(mixStore)
    /\ mixLast' = NoMix
    /\ mixBurst' = 0
    /\ UNCHANGED <<mixAllowed, mixRoutes>>

(***************************************************************************)
(* The auth service: handlers.AuthHandler over models.UserModel, which     *)
(* keeps one refresh token per user in Redis under refresh_token:<id>.     *)
(* Each handler makes one call of the store; a call the store fails        *)
(* returns an error and changes nothing.                                   *)
(***************************************************************************)
MaxClock == 2          \* seconds of the clock the model follows

Users == {"u1", "u2"}

\* a refresh token as jwt.Parse sees it: malformed, or a JWT with its user_id
\* claim, the key that signed it (HS256) and its iat claim; exp is iat + 7 days
\* and lies beyond the clock of the model
Malformed == [form |-> "malformed", sub |-> NoName, key |-> "none", iat |-> 0]
RefreshTokens ==
    [form : {"jwt"}, sub : Users, key : {"shared", "other"}, iat : 0..MaxClock]
        \cup {Malformed}

\* generateRefreshToken(user.ID, user.Email) at time now
GenerateRefreshToken(u, now) == [form |-> "jwt", sub |-> u, key |-> "shared", iat |-> now]

\* jwt.Parse(tokenString, keyFunc) with keyFunc returning h.jwtSecret: the
\* token it returns ("nil" for a string that is no JWT; otherwise the parsed
\* token, also when verification fails) and whether err is nil
JwtParse(tok) ==
    IF tok.form = "malformed" THEN [token |-> "nil", ok |-> FALSE]
    ELSE [token |-> "parsed", ok |-> tok.key = "shared"]

VARIABLES
    rtStore,     \* Redis: user -> the refresh token stored for the user (partial)
    authNow,     \* the clock, in seconds
    authLast,    \* the call answered last: handler, user, token presented or
                 \* issued, status
    loggedOut,   \* history, per user: Logout was called with a refresh token
                 \* issued to the user and answered 200, and the user has not
                 \* logged in since
    issued       \* history: the refresh tokens Login has generated

authVars == <<rtStore, authNow, authLast, loggedOut, issued>>

NoCall == [op |-> "none", user |-> NoName, tok |-> Malformed, status |-> 0]

AuthInit ==
    /\ rtStore = <<>>
    /\ authNow = 0
    /\ authLast = NoCall
    /\ loggedOut = [u \in Users |-> FALSE]
    /\ issued = {}

\* the tokens a caller can present: what Login has generated, and whatever it
\* makes up without the service secret
Presentable == {tok \in RefreshTokens : tok.key = "shared" => tok \in issued}

\* UserModel.StoreRefreshToken: SET key token
StoreRefreshToken(st, u, tok) == MapSet(st, u, tok)

\* UserModel.ValidateRefreshToken: GET key, then storedToken == token
ValidateRefreshToken(st, u, tok, getOk) == getOk /\ u \in DOMAIN st /\ st[u] = tok

\* UserModel.RevokeRefreshToken: DEL key
RevokeRefreshToken(st, u) == [x \in (DOMAIN st) \ {u} |-> st[x]]

\* Login with the user's email and password: lines 95-146
Login(u, setOk) ==
    LET tok == GenerateRefreshToken(u, authNow)
    IN  /\ rtStore' = IF setOk THEN StoreRefreshToken(rtStore, u, tok) ELSE rtStore
        /\ authLast' = [op |-> "Login", user |-> u, tok |-> tok,
                        status |-> IF setOk THEN 200 ELSE 500]
        /\ loggedOut' = IF setOk THEN [loggedOut EXCEPT ![u] = FALSE] ELSE loggedOut
        /\ issued' = IF setOk THEN issued \cup {tok} ELSE issued
        /\ UNCHANGED authNow

\* RefreshToken: lines 149-193
RefreshToken(tok, getOk) ==
    LET parsed == JwtParse(tok)
        status == IF ~parsed.ok THEN 401
                  ELSE IF ~ValidateRefreshToken(rtStore, tok.sub, tok, getOk) THEN 401
                  ELSE 200
    IN  /\ authLast' = [op |-> "RefreshToken", user |-> tok.sub, tok |-> tok,
                        status |-> status]
        /\ UNCHANGED <<rtStore, authNow, loggedOut, issued>>

\* Logout: lines 196-215.  The error of jwt.Parse is dropped; a nil token makes
\* token.Claims panic (the server recovers and sends no answer: status 0); the
\* error of RevokeRefreshToken is dropped.
Logout(tok, delOk) ==
    LET parsed == JwtParse(tok)
    IN  IF parsed.token = "nil"
        THEN /\ authLast' = [op |-> "Logout", user |-> NoName, tok |-> tok, status |-> 0]
             /\ UNCHANGED <<rtStore, authNow, loggedOut, issued>>
        ELSE /\ rtStore' = IF delOk THEN RevokeRefreshToken(rtStore, tok.sub) ELSE rtStore
             /\ authLast' = [op |-> "Logout", user |-> tok.sub, tok |-> tok, status |-> 200]
             /\ loggedOut' = IF tok.key = "shared"
                             THEN [loggedOut EXCEPT ![tok.sub] = TRUE] ELSE loggedOut
             /\ UNCHANGED <<authNow, issued>>

\* a second passes
AuthTick ==
    /\ authNow < MaxClock
    /\ authNow' = authNow + 1
    /\ UNCHANGED <<rtStore, authLast, loggedOut, issued>>

vars == <<regVars, rlVars, cbVars, gwVars, isoVars, sdVars, mixVars, authVars>>

Init == RegInit /\ RLInit /\ CBInit /\ GWInit /\ IsoInit /\ SDInit /\ MixInit /\ AuthInit

RegNext ==
    \/ \E t \in Threads, name \in Names :
          RegLock(t, "RegisterService", name) /\ UNCHANGED <<rlVars, cbVars, gwVars, isoVars, sdVars, mixVars, authVars>>
    \/ \E t \in Threads, name \in Names :
          RegLock(t, "GetEndpoint", name) /\ UNCHANGED <<rlVars, cbVars, gwVars, isoVars, sdVars, mixVars, authVars>>
    \/ \E t \in Threads, endpoints \in EndpointLists :
          RegisterService(t, endpoints) /\ UNCHANGED <<rlVars, cbVars, gwVars, isoVars, sdVars, mixVars, authVars>>
    \/ \E t \in Threads : GetEndpoint(t) /\ UNCHANGED <<rlVars, cbVars, gwVars, isoVars, sdVars, mixVars, authVars>>
    \/ \E t \in Threads : GetEndpointStore(t) /\ UNCHANGED <<rlVars, cbVars, gwVars, isoVars, sdVars, mixVars, authVars>>

RLNext ==
    \/ \E t \in Threads, req \in Requests, getOk \in BOOLEAN :
          RLGet(t, req, getOk) /\ UNCHANGED <<regVars, cbVars, gwVars, isoVars, sdVars, mixVars, authVars>>
    \/ \E t \in Threads, outcome \in {"ok", "fail", "lost", "cut"} :
          RLExec(t, outcome) /\ UNCHANGED <<regVars, cbVars, gwVars, isoVars, sdVars, mixVars, authVars>>
    \/ RLTick /\ UNCHANGED <<regVars, cbVars, gwVars, isoVars, sdVars, mixVars, authVars>>

CBNext ==
    \/ \E t \in Threads, b \in Backends : CBBegin(t, b) /\ UNCHANGED <<regVars, rlVars, gwVars, isoVars, sdVars, mixVars, authVars>>
    \/ \E t \in Threads, outcome \in BackendOutcomes :
          CBEnd(t, outcome) /\ UNCHANGED <<regVars, rlVars, gwVars, isoVars, sdVars, mixVars, authVars>>
    \/ CBTick /\ UNCHANGED <<regVars, rlVars, gwVars, isoVars, sdVars, mixVars, authVars>>

GWNext ==
    \/ \E route \in Routes, req \in GwRequests :
          GWArrive(route, req) /\ UNCHANGED <<regVars, rlVars, cbVars, isoVars, sdVars, mixVars, authVars>>
    \/ GWCors /\ UNCHANGED <<regVars, rlVars, cbVars, isoVars, sdVars, mixVars, authVars>>
    \/ GWRateLimit /\ UNCHANGED <<regVars, rlVars, cbVars, isoVars, sdVars, mixVars, authVars>>
    \/ GWAuthenticate /\ UNCHANGED <<regVars, rlVars, cbVars, isoVars, sdVars, mixVars, authVars>>
    \/ GWBreaker /\ UNCHANGED <<regVars, rlVars, cbVars, isoVars, sdVars, mixVars, authVars>>
    \/ \E outcome \in BackendOutcomes : GWForward(outcome) /\ UNCHANGED <<regVars, rlVars, cbVars, isoVars, sdVars, mixVars, authVars>>
    \/ GWTick /\ UNCHANGED <<regVars, rlVars, cbVars, isoVars, sdVars, mixVars, authVars>>
    \/ GWHealth /\ UNCHANGED <<regVars, rlVars, cbVars, isoVars, sdVars, mixVars, authVars>>

IsoNext ==
    \/ \E route \in Routes, outcome \in BackendOutcomes :
          IsoServe(route, outcome) /\ UNCHANGED <<regVars, rlVars, cbVars, gwVars, sdVars, mixVars, authVars>>
    \/ IsoTick /\ UNCHANGED <<regVars, rlVars, cbVars, gwVars, sdVars, mixVars, authVars>>

SDNext ==
    \/ \E k \in SDConns : SDAccept(k) /\ UNCHANGED <<regVars, rlVars, cbVars, gwVars, isoVars, mixVars, authVars>>
    \/ \E k \in SDConns : SDFinish(k) /\ UNCHANGED <<regVars, rlVars, cbVars, gwVars, isoVars, mixVars, authVars>>
    \/ \E k \in SDConns : SDClose(k) /\ UNCHANGED <<regVars, rlVars, cbVars, gwVars, isoVars, mixVars, authVars>>
    \/ SDSignal /\ UNCHANGED <<regVars, rlVars, cbVars, gwVars, isoVars, mixVars, authVars>>
    \/ SDTick /\ UNCHANGED <<regVars, rlVars, cbVars, gwVars, isoVars, mixVars, authVars>>
    \/ SDExit /\ UNCHANGED <<regVars, rlVars, cbVars, gwVars, isoVars, mixVars, authVars>>
    \/ SDForced /\ UNCHANGED <<regVars, rlVars, cbVars, gwVars, isoVars, mixVars, authVars>>

MixNext ==
    \/ \E route \in Routes, req \in Requests :
          MixServe(route, req) /\ UNCHANGED <<regVars, rlVars, cbVars, gwVars, isoVars, sdVars, authVars>>
    \/ MixTick /\ UNCHANGED <<regVars, rlVars, cbVars, gwVars, isoVars, sdVars, authVars>>

AuthNext ==
    \/ \E u \in Users, setOk \in BOOLEAN :
          Login(u, setOk) /\ UNCHANGED <<regVars, rlVars, cbVars, gwVars, isoVars, sdVars, mixVars>>
    \/ \E tok \in Presentable, getOk \in BOOLEAN :
          RefreshToken(tok, getOk) /\ UNCHANGED <<regVars, rlVars, cbVars, gwVars, isoVars, sdVars, mixVars>>
    \/ \E tok \in Presentable, delOk \in BOOLEAN :
          Logout(tok, delOk) /\ UNCHANGED <<regVars, rlVars, cbVars, gwVars, isoVars, sdVars, mixVars>>
    \/ AuthTick /\ UNCHANGED <<regVars, rlVars, cbVars, gwVars, isoVars, sdVars, mixVars>>

SpecReg == Init /\ [][RegNext]_vars

SpecRL == Init /\ [][RLNext]_vars

SpecCB == Init /\ [][CBNext]_vars

SpecGW == Init /\ [][GWNext]_vars

SpecIso == Init /\ [][IsoNext]_vars

SpecSD == Init /\ [][SDNext]_vars

SpecMix == Init /\ [][MixNext]_vars

SpecAuth == Init /\ [][AuthNext]_vars

\* once Shutdown is running, time passes and the main goroutine, which does
\* nothing else, returns from it as soon as it can; nothing obliges a signal
\* to come or a request to finish
SpecSDLive ==
    /\ Init
    /\ [][SDNext]_vars
    /\ WF_sdVars(SDTick)
    /\ WF_sdVars(SDExit)
    /\ WF_sdVars(SDForced)

(***************************************************************************)
(* C1: after RegisterService(name, e_0..e_{N-1}) with N >= 1 and no later  *)
(* re-registration, the k-th GetEndpoint(name) (k from 0) returns          *)
(* e_{k mod N}: the returned addresses cycle with period N.                *)
(***************************************************************************)
C1_RoundRobin ==
    \A name \in DOMAIN services :
        (Len(services[name]) >= 1 /\ calls[name] >= 1) =>
            lastRet[name] = services[name][((calls[name] - 1) % Len(services[name])) + 1]

\* a second trip round a two-endpoint list has begun
C1_Witness ==
    \E name \in DOMAIN services :
        /\ Len(services[name]) = 2
        /\ services[name][1] # services[name][2]
        /\ calls[name] = 4
        /\ lastRet[name] = services[name][2]

(***************************************************************************)
(* Rate limiter claims.  A window of the watched client opens with the     *)
(* request that finds no counter and ends when the counter expires.        *)
(***************************************************************************)
\* the requests of this window came one after another and the store answered
Sequential == ~overlap /\ ~storeErr

(***************************************************************************)
(* C2: with a reachable store and one client sending requests one after    *)
(* another inside one window, the first Limit requests are passed on and   *)
(* every later one gets 429 with the rate-limit body and is not passed on. *)
(***************************************************************************)
C2_SequentialLimit ==
    /\ Sequential => /\ passed <= Limit
                     /\ denied > 0 => passed = Limit
    /\ rlLast.status = 429 => rlLast.body = RateLimitBody /\ rlLast.next = 0

\* Limit requests passed, then two denied
C2_Witness ==
    /\ Sequential
    /\ passed = Limit
    /\ denied = 2
    /\ rlLast = [client |-> Watched, next |-> 0, status |-> 429,
                 body |-> RateLimitBody, err |-> FALSE]

(***************************************************************************)
(* C3: under any interleaving of concurrent requests of one client inside  *)
(* one window, at most Limit of them are passed on (the store answering).  *)
(***************************************************************************)
C3_AtMostLimit == ~storeErr => passed <= Limit

(***************************************************************************)
(* C4: once the client's counter has expired, the next request is allowed  *)
(* and starts a fresh window: the counter is 1 with a full Duration to     *)
(* live, and again exactly Limit requests are allowed in the new window    *)
(* (requests handled one after another, the store answering).              *)
(***************************************************************************)
C4_FreshWindow ==
    [][(expired' /\ Sequential' /\ passed' + denied' >= 1) =>
          /\ Watched \in DOMAIN store'
          /\ store'[Watched].val = passed'
          /\ store'[Watched].ttl # NoTTL
          /\ passed' >= 1 /\ passed' <= Limit
          /\ denied' > 0 => passed' = Limit
          /\ passed + denied = 0 => store'[Watched] = [val |-> 1, ttl |-> Duration]]_vars

\* the window after an expiry has been used up and a request denied in it
C4_Witness ==
    /\ expired
    /\ Sequential
    /\ passed = Limit
    /\ denied >= 1

(***************************************************************************)
(* C5: a request during which the store failed (on the GET or on the       *)
(* pipeline) is passed to the next stage exactly once and never gets 429.  *)
(***************************************************************************)
C5_FailOpen == rlLast.err => rlLast.next = 1 /\ rlLast.status # 429

\* the store fails a request of a client whose counter is at the limit
C5_Witness ==
    /\ rlLast.err
    /\ rlLast.client = Watched
    /\ Watched \in DOMAIN store
    /\ store[Watched].val >= Limit

(***************************************************************************)
(* Circuit breaker claims, about the breaker of Watching.                  *)
(***************************************************************************)
Watching == "auth-service"

\* steps of the middleware, as actions
Admit(t) == cbPc[t] = "idle" /\ cbPc'[t] = "next"
Reject == cbLast' # cbLast /\ cbLast'.kind = "reject"
End(t) == cbPc[t] = "next" /\ cbPc'[t] = "idle"
Arrives == Reject \/ \E t \in Threads : Admit(t)
\* a trial of the current HalfOpen episode ends with a success / a failure
TrialSucceeds(t) ==
    cb[Watching].state = "half-open" /\ End(t) /\ ~cbOld[t] /\ cbLast'.status < 500
TrialFails(t) ==
    cb[Watching].state = "half-open" /\ End(t) /\ ~cbOld[t] /\ cbLast'.status >= 500

Unavailable == [kind |-> "reject", next |-> 0, status |-> 503, body |-> BreakerOpenBody]

(***************************************************************************)
(* C6 as stated: from a Closed breaker with an empty tally, after three    *)
(* requests in a row that each end with status >= 500 the breaker is Open, *)
(* and a request arriving before the 30 s Open timeout gets 503 with the   *)
(* breaker-open body while the backend is not contacted.                   *)
(***************************************************************************)
C6_OpenAfterThree ==
    [][/\ streak' >= TripAfter => cb'[Watching].state = "open"
       /\ (streak >= TripAfter /\ cb[Watching].state = "open" /\ openAge < OpenTimeout) =>
             /\ \A t \in Threads : ~Admit(t)
             /\ Reject => cbLast' = Unavailable]_vars

(***************************************************************************)
(* C6 amended: the same, for three failed requests in a row that all fall  *)
(* within one sampling Interval of the tally (it is cleared every minute   *)
(* while the breaker is Closed).                                           *)
(***************************************************************************)
C6_OpenAfterThreeInWindow ==
    [][/\ (streak' >= TripAfter /\ ~aged') => cb'[Watching].state = "open"
       /\ (streak >= TripAfter /\ ~aged /\ cb[Watching].state = "open"
             /\ openAge < OpenTimeout) =>
             /\ \A t \in Threads : ~Admit(t)
             /\ Reject => cbLast' = Unavailable]_vars

\* three failures in a row have opened the breaker and the next request got 503
C6_Witness ==
    /\ streak = TripAfter
    /\ ~aged
    /\ cb[Watching].state = "open"
    /\ openAge < OpenTimeout
    /\ cbLast = Unavailable

(***************************************************************************)
(* C7 as stated: once the breaker has been Open for longer than the Open   *)
(* timeout the next request is admitted (HalfOpen), and if that one        *)
(* request succeeds the breaker is Closed again.                           *)
(***************************************************************************)
C7_ClosedAfterOneTrial ==
    [][/\ (cb[Watching].state = "open" /\ openAge > OpenTimeout /\ Arrives) =>
             /\ \E t \in Threads : Admit(t)
             /\ cb'[Watching].state = "half-open"
       /\ \A t \in Threads :
             (TrialSucceeds(t) /\ trialOK = 0 /\ Running(Watching) = {t}) =>
                 cb'[Watching].state = "closed"]_vars

(***************************************************************************)
(* C7 amended: once the breaker has been Open for longer than the Open     *)
(* timeout the next request is admitted (HalfOpen); when that one request  *)
(* succeeds the breaker is still HalfOpen, and it is Closed again with the *)
(* third trial in a row that succeeds.                                     *)
(***************************************************************************)
C7_ClosedAfterThreeTrials ==
    [][/\ (cb[Watching].state = "open" /\ openAge > OpenTimeout /\ Arrives) =>
             /\ \E t \in Threads : Admit(t)
             /\ cb'[Watching].state = "half-open"
       /\ \A t \in Threads :
             (TrialSucceeds(t) /\ trialOK = 0 /\ Running(Watching) = {t}) =>
                 cb'[Watching].state = "half-open"
       /\ \A t \in Threads :
             (TrialSucceeds(t) /\ trialOK = 2) => cb'[Watching].state = "closed"]_vars

\* the first trial after the timeout has succeeded and the breaker is HalfOpen
C7_Witness ==
    /\ cb[Watching].state = "half-open"
    /\ trialOK = 1
    /\ Running(Watching) = {}
    /\ cbLast.kind = "end" /\ cbLast.status = 200

(***************************************************************************)
(* C8: from HalfOpen the breaker returns to Closed exactly when the        *)
(* bounded number of trial requests (3) have all completed successfully,   *)
(* never after fewer successful trials.                                    *)
(***************************************************************************)
C8_ClosedAfterQuota ==
    [][/\ (cb[Watching].state = "half-open" /\ cb'[Watching].state = "closed") =>
             /\ \E t \in Threads : TrialSucceeds(t)
             /\ trialOK' = TrialQuota
       /\ (trialOK' = TrialQuota /\ \E t \in Threads : TrialSucceeds(t)) =>
             cb'[Watching].state = "closed"]_vars

\* the third successful trial has closed the breaker
C8_Witness ==
    /\ cb[Watching].state = "closed"
    /\ trialOK = TrialQuota
    /\ cb[Watching].counts = ZeroCounts

(***************************************************************************)
(* C9: while the breaker is HalfOpen, the first trial that ends in failure *)
(* (status >= 500) moves it back to Open and restarts the Open timeout,    *)
(* whatever number of trials succeeded before.                             *)
(***************************************************************************)
C9_TrialFailureReopens ==
    [][\A t \in Threads :
          TrialFails(t) => /\ cb'[Watching].state = "open"
                           /\ cb'[Watching].expiry = In(OpenTimeout)
                           /\ openAge' = 0]_vars

\* two trials succeeded, the third failed: Open again with a full timeout ahead
C9_Witness ==
    /\ cb[Watching].state = "open"
    /\ cb[Watching].expiry = In(OpenTimeout)
    /\ trialOK = 2
    /\ cbLast.kind = "end" /\ cbLast.status = 500

(***************************************************************************)
(* C10: a breaker that entered Open stays Open until the 30 s timeout has  *)
(* elapsed: until then every request is rejected without the next handler  *)
(* being called, and the only way out of Open is to HalfOpen, taken after  *)
(* the timeout.                                                            *)
(***************************************************************************)
C10_OpenUntilTimeout ==
    [][cb[Watching].state = "open" =>
          /\ \/ cb'[Watching].state = "open"
             \/ /\ cb'[Watching].state = "half-open"
                /\ openAge >= OpenTimeout
          /\ (openAge < OpenTimeout) =>
                /\ \A t \in Threads : ~Admit(t)
                /\ Reject => (cbLast'.next = 0 /\ cbLast'.status = 503)]_vars

\* part of the timeout has passed and a request has just been turned away
C10_Witness ==
    /\ cb[Watching].state = "open"
    /\ openAge > 0 /\ openAge < OpenTimeout
    /\ cbLast = Unavailable


(***************************************************************************)
(* The thresholds of the trip condition the claims speak of.               *)
(***************************************************************************)
MinSample == 3         \* requests in the tally
RatioNum == 3          \* failures / requests >= 3 / 5
RatioDen == 5

\* a tally that meets both thresholds
MeetsThresholds(counts) ==
    counts.Requests >= MinSample /\ RatioDen * counts.TotalFailures >= RatioNum * counts.Requests

\* the period of the breaker's generation has run out, which the next call of
\* the breaker will act on
Lapsed == ~cb[Watching].expiry.zero /\ cb[Watching].expiry.left < 0

\* the request of t was admitted in the generation the breaker is still in
Current(t) == cbBefore[t] /\ ~Lapsed

\* the step adds exactly one failure / one success to the breaker's record:
\* to its tally, or as the state change that outcome brings (with a new tally)
OneFailure ==
    LET c == cb[Watching]
        d == cb'[Watching]
    IN  \/ /\ d.state = c.state
           /\ d.counts = [c.counts EXCEPT !.TotalFailures = @ + 1,
                                          !.ConsecutiveFailures = @ + 1,
                                          !.ConsecutiveSuccesses = 0]
        \/ c.state # "open" /\ d.state = "open" /\ d.counts = ZeroCounts
OneSuccess ==
    LET c == cb[Watching]
        d == cb'[Watching]
    IN  \/ /\ d.state = c.state
           /\ d.counts = [c.counts EXCEPT !.TotalSuccesses = @ + 1,
                                          !.ConsecutiveSuccesses = @ + 1,
                                          !.ConsecutiveFailures = 0]
        \/ c.state = "half-open" /\ d.state = "closed" /\ d.counts = ZeroCounts

(***************************************************************************)
(* C11: a breaker moves from Closed to Open only at a moment when its      *)
(* tally has requests >= 3 and failures/requests >= 0.6: the tally that    *)
(* opened it is the one it had, with the failure just recorded, and meets  *)
(* both thresholds.                                                        *)
(***************************************************************************)
C11_OpensOnlyAtThresholds ==
    [][(cb[Watching].state = "closed" /\ cb'[Watching].state = "open") =>
          /\ MeetsThresholds(tripTally')
          /\ tripTally'.Requests = cb[Watching].counts.Requests
          /\ tripTally'.TotalFailures = cb[Watching].counts.TotalFailures + 1]_vars

\* the breaker has just opened on a tally of three requests, two of them failed
C11_Witness ==
    /\ cb[Watching].state = "open"
    /\ openAge = 0
    /\ cbLast.kind = "end" /\ cbLast.status >= 500
    /\ tripTally.Requests = MinSample
    /\ tripTally.TotalFailures = 2

(***************************************************************************)
(* C12 as stated: with no request in flight, a breaker whose tally (of the *)
(* running sampling interval) has requests >= 3 and failures/requests >=   *)
(* 0.6 is never Closed.                                                    *)
(***************************************************************************)
C12_NeverClosedAtThresholds ==
    (Running(Watching) = {} /\ cb[Watching].state = "closed" /\ ~Lapsed) =>
        ~MeetsThresholds(cb[Watching].counts)

(***************************************************************************)
(* C13 as stated: for every admitted request, a status >= 500 written      *)
(* downstream is recorded as exactly one failure and a status < 500 as     *)
(* exactly one success, and the caller receives the downstream status and  *)
(* response, not a 503 of the gateway.                                     *)
(***************************************************************************)
C13_EveryOutcomeRecorded ==
    [][\A t \in Threads :
          (End(t) /\ cbFor[t] = Watching) =>
              /\ cbLast'.status >= 500 => OneFailure
              /\ cbLast'.status < 500 => OneSuccess
              /\ cbLast'.kind = "end" /\ cbLast'.next = 1
              /\ cbCause'.kind = "response" =>
                    cbLast'.status = cbCause'.status /\ cbLast'.body = "downstream"
              /\ cbLast' # Unavailable]_vars

(***************************************************************************)
(* C13 amended: the same for every admitted request that ends in the       *)
(* generation of the breaker it was admitted in (no state change and no    *)
(* clearing of the tally while it was in flight); the caller receives the  *)
(* downstream status and response in every case.                           *)
(***************************************************************************)
C13_CurrentOutcomeRecorded ==
    [][\A t \in Threads :
          (End(t) /\ cbFor[t] = Watching) =>
              /\ (Current(t) /\ cbLast'.status >= 500) => OneFailure
              /\ (Current(t) /\ cbLast'.status < 500) => OneSuccess
              /\ cbLast'.kind = "end" /\ cbLast'.next = 1
              /\ cbCause'.kind = "response" =>
                    cbLast'.status = cbCause'.status /\ cbLast'.body = "downstream"
              /\ cbLast' # Unavailable]_vars

\* a backend's 500 has reached the caller and is the one failure of the tally
C13_Witness ==
    /\ cbLast.kind = "end" /\ cbLast.status = 500
    /\ cbCause = [kind |-> "response", status |-> 500]
    /\ cb[Watching].state = "closed"
    /\ cb[Watching].counts.Requests = 1
    /\ cb[Watching].counts.TotalFailures = 1

(***************************************************************************)
(* C14: when forwarding fails at transport level the caller receives a 5xx *)
(* status and the breaker records one failure for the request, exactly as  *)
(* for a 500 returned by the backend.                                      *)
(***************************************************************************)
C14_TransportFailureCounts ==
    [][\A t \in Threads :
          (End(t) /\ cbFor[t] = Watching /\ cbCause'.kind \in TransportErrors) =>
              /\ cbLast'.status >= 500
              /\ Current(t) => OneFailure
              /\ cb'[Watching] =
                    [AfterRequest(cb[Watching], cbBefore[t], FALSE) EXCEPT !.generation = 0]]_vars

\* three refused connections in a row have opened the breaker
C14_Witness ==
    /\ cbCause.kind = "refused"
    /\ cbLast.kind = "end" /\ cbLast.status >= 500
    /\ cb[Watching].state = "open"
    /\ openAge = 0
    /\ streak = TripAfter

(***************************************************************************)
(* C15 as stated: every request a breaker refuses to pass on, in any state *)
(* of the breaker, is answered with 503 and the breaker-open body.         *)
(***************************************************************************)
C15_RefusedGets503 == [][Reject => cbLast' = Unavailable]_vars

(***************************************************************************)
(* Gateway claims, about the request the model follows through its route.  *)
(***************************************************************************)
DataRoute == "/api/v1/data"

\* the request has been answered
Done == gwAt = 0 /\ gwReq # NoRequest

\* the stage ran for the request
Ran(name) == \E i \in 1..gwRan : Chain(gwRoute)[i] = name

\* the credential the data route asks for: 'Bearer <token>', the token signed
\* with HMAC and the shared secret and not expired
ValidCredential(auth) ==
    /\ auth.parts = 2 /\ auth.scheme = "Bearer"
    /\ auth.token.alg = "HS256" /\ auth.token.key = "shared"
    /\ auth.token.exp # "past"

\* a structured 401 body: {"error":"unauthorized","message":<reason>}
AuthReasons ==
    {"missing authorization header", "invalid authorization header format",
     "invalid token", "token is not valid", "invalid token claims"}
Structured401(ans) ==
    ans.status = 401 /\ \E m \in AuthReasons : ans.body = UnauthorizedBody(m)

(***************************************************************************)
(* C16 as stated: a request to /api/v1/data is forwarded to the backend    *)
(* only if it carries a valid credential; every other request on the route *)
(* gets 401 with a structured body and never reaches the backend.          *)
(***************************************************************************)
C16_OnlyValidForwarded ==
    gwRoute = DataRoute =>
        /\ gwAns.backend > 0 => ValidCredential(gwReq.auth)
        /\ (Done /\ ~ValidCredential(gwReq.auth)) =>
              Structured401(gwAns) /\ gwAns.backend = 0

(***************************************************************************)
(* C16 amended: forwarded only with a valid credential; every other        *)
(* request on the route never reaches the backend, and gets 401 with a     *)
(* structured body when it reaches the authenticator (it is neither a CORS *)
(* preflight, answered 200, nor over the rate limit, answered 429).        *)
(***************************************************************************)
C16_OnlyValidForwardedPastLimiter ==
    gwRoute = DataRoute =>
        /\ gwAns.backend > 0 => ValidCredential(gwReq.auth)
        /\ (Done /\ ~ValidCredential(gwReq.auth)) =>
              /\ gwAns.backend = 0
              /\ ~Ran("breaker") /\ ~Ran("forward")
              /\ Ran("authenticate") => Structured401(gwAns)
              /\ ~Ran("authenticate") => gwAns.status \in {200, 429}

\* an expired token has been turned away with 401 by the authenticator
C16_Witness ==
    /\ Done
    /\ gwRoute = DataRoute
    /\ gwReq.auth = [parts |-> 2, scheme |-> "Bearer", token |-> ExpiredToken]
    /\ Ran("authenticate")
    /\ Structured401(gwAns)
    /\ gwAns.backend = 0

\* what is wrong with a token, of the three faults the claim names
Fault(token) ==
    CASE token.alg # "HS256" -> "algorithm"
      [] token.key # "shared" -> "secret"
      [] token.exp = "past" -> "expired"
      [] OTHER -> ""

(***************************************************************************)
(* C17 as stated: the reason in the 401 answer for a token with one of the *)
(* three faults (other secret, disallowed algorithm, expired) differs from *)
(* the reason the authenticator gives for a token with another of them.    *)
(***************************************************************************)
C17_DistinctReasons ==
    (/\ Done /\ gwRoute = DataRoute /\ gwAns.status = 401
     /\ gwReq.auth.parts = 2 /\ gwReq.auth.scheme = "Bearer"
     /\ Fault(gwReq.auth.token) # "") =>
        \A other \in Tokens :
            Fault(other) \notin {"", Fault(gwReq.auth.token)} =>
                gwAns.body #
                    UnauthorizedBody(Authenticate([gwReq.auth EXCEPT !.token = other]))

(***************************************************************************)
(* C18: an OPTIONS request to any proxied route never causes a call to a   *)
(* backend, whatever the state of the limiter and the breaker and whatever *)
(* credentials it carries.                                                 *)
(***************************************************************************)
C18_OptionsNeverForwarded == gwReq.method = "OPTIONS" => gwAns.backend = 0

\* an OPTIONS request came through to the forwarder and no backend was called
C18_Witness ==
    /\ Done
    /\ gwReq.method = "OPTIONS"
    /\ Ran("forward")
    /\ gwAns.backend = 0
    /\ gwAns.status = 200

(***************************************************************************)
(* C19 as stated: OPTIONS /api/v1/data/x is answered 200 with an empty     *)
(* body, with or without an Authorization header, whatever the client's    *)
(* rate-limit count and the state of the go-api breaker.                   *)
(***************************************************************************)
C19_OptionsGets200 ==
    (Done /\ gwRoute = DataRoute /\ gwReq.method = "OPTIONS") =>
        gwAns.status = 200 /\ gwAns.body = ""

\* the place the claim gives each stage in the order of a route group
Rank(name) ==
    CASE name = "cors" -> 0
      [] name = "ratelimit" -> 1
      [] name = "breaker" -> 2
      [] name = "authenticate" -> 3
      [] OTHER -> 4

(***************************************************************************)
(* C20 as stated: on every route group the stages run in the order rate    *)
(* limiter, breaker, authenticator (where there is one), forwarder: a      *)
(* request on the data route is admitted or rejected by the breaker before *)
(* its credential is examined.                                             *)
(***************************************************************************)
C20_BreakerBeforeAuthenticator ==
    /\ \A i, j \in 1..gwRan :
          i < j => Rank(Chain(gwRoute)[i]) < Rank(Chain(gwRoute)[j])
    /\ Ran("authenticate") => Ran("breaker")

(***************************************************************************)
(* Registry claims (continued).                                            *)
(***************************************************************************)
\* thread t takes the step of GetEndpoint that decides whether name is held
Looks(t) == regPc[t] = "GetEndpoint" /\ regPc'[t] # "GetEndpoint"
\* a call of thread t returns
Returns(t, op) == regPc[t] = op /\ regPc'[t] = "idle"

(***************************************************************************)
(* C24: GetEndpoint(name) returns the empty string when name was never     *)
(* registered or was registered with zero endpoints; it does not fail and  *)
(* changes no endpoint list and no cursor.                                 *)
(***************************************************************************)
C24_EmptyForMissing ==
    [][/\ \A t \in Threads :
             (Looks(t) /\ (regName[t] \notin DOMAIN services
                              \/ Len(services[regName[t]]) = 0)) =>
                 /\ Returns(t, "GetEndpoint")
                 /\ lastRet'[regName[t]] = ""
                 /\ services' = services /\ current' = current
       /\ \A n \in Names : lastRet'[n] # OutOfRange]_vars

\* a name registered with no endpoints has been looked up
C24_Witness ==
    \E n \in DOMAIN services :
        /\ Len(services[n]) = 0
        /\ calls[n] >= 1
        /\ lastRet[n] = ""

(***************************************************************************)
(* C25: RegisterService(name, E), also for a name already registered with  *)
(* a non-zero cursor, replaces the endpoint list of name by E and resets   *)
(* its cursor to 0, so that the next GetEndpoint(name) returns E[0]; the   *)
(* lists and cursors of all other names are unchanged.                     *)
(***************************************************************************)
C25_RegisterReplaces ==
    [][\A t \in Threads :
          /\ Returns(t, "RegisterService") =>
                LET n == regName[t]
                IN  /\ lastReg'.name = n
                    /\ DOMAIN services' = DOMAIN services \cup {n}
                    /\ DOMAIN current' = DOMAIN current \cup {n}
                    /\ services'[n] = lastReg'.endpoints
                    /\ current'[n] = 0
                    /\ \A m \in DOMAIN services \ {n} : services'[m] = services[m]
                    /\ \A m \in DOMAIN current \ {n} : current'[m] = current[m]
          /\ (/\ Returns(t, "GetEndpoint.store") /\ calls[regName[t]] = 0
              /\ lastReg.name = regName[t] /\ Len(lastReg.endpoints) >= 1) =>
                lastRet'[regName[t]] = lastReg.endpoints[1]]_vars

\* a name was registered again while its cursor was 1, and the next lookup
\* returned the first endpoint of the new list
C25_Witness ==
    /\ lastReg.name \in DOMAIN services
    /\ lastReg.cursor = 1
    /\ Len(lastReg.endpoints) = 2
    /\ calls[lastReg.name] = 1
    /\ lastRet[lastReg.name] = lastReg.endpoints[1]

(***************************************************************************)
(* C26 as stated: for every name held in the registry the cursor is a      *)
(* valid index into its endpoint list: 0 <= cursor < number of endpoints.  *)
(***************************************************************************)
C26_CursorValid ==
    \A n \in DOMAIN services :
        /\ n \in DOMAIN current
        /\ 0 <= current[n] /\ current[n] < Len(services[n])

(***************************************************************************)
(* C26 amended: for every name held with at least one endpoint the cursor  *)
(* is a valid index into its list; for a name held with no endpoints, for  *)
(* which no index is valid, the cursor is 0.                               *)
(***************************************************************************)
C26_CursorValidWhenNonEmpty ==
    \A n \in DOMAIN services :
        /\ n \in DOMAIN current
        /\ IF Len(services[n]) = 0 THEN current[n] = 0
           ELSE 0 <= current[n] /\ current[n] < Len(services[n])

\* the cursor has gone round a two-endpoint list and stands at its last index
C26_Witness ==
    \E n \in DOMAIN services :
        /\ Len(services[n]) = 2
        /\ calls[n] = 3
        /\ current[n] = 1

\* how often address a comes up in k lookups in rotation over endpoints, from cursor 0
InRotation(endpoints, k, a) ==
    Cardinality({i \in 1..k : endpoints[((i - 1) % Len(endpoints)) + 1] = a})

(***************************************************************************)
(* C27: GetEndpoint calls on one name made by concurrent threads return    *)
(* the same addresses, each as often, as that many calls one after another *)
(* from the same starting cursor, and leave the cursor where those would:  *)
(* no cursor step is lost or taken twice.                                  *)
(***************************************************************************)
C27_ConcurrentAsSequential ==
    \A n \in DOMAIN services :
        Len(services[n]) >= 1 =>
            /\ \A a \in Addrs : returned[n][a] = InRotation(services[n], calls[n], a)
            /\ current[n] = calls[n] % Len(services[n])

\* three calls on the name have returned, the last to one thread, and a call of
\* the other thread is under way
C27_Witness ==
    \E n \in DOMAIN services :
        /\ Len(services[n]) = 2
        /\ services[n][1] # services[n][2]
        /\ calls[n] = 3
        /\ lastReg.name = n
        /\ \E t \in Threads :
              /\ regPc[t] = "GetEndpoint.store" /\ regName[t] = n
              /\ lastBy \in Threads \ {t}

(***************************************************************************)
(* Gateway claims (continued).                                             *)
(***************************************************************************)
\* the step in which the forwarder sends the request to a backend
Forwards == gwAns.backend = 0 /\ gwAns'.backend > 0

(***************************************************************************)
(* C21 as stated: each forwarded request is sent to the address a          *)
(* round-robin registry lookup, made for that request under the name of    *)
(* the route's backend, returned.                                          *)
(***************************************************************************)
C21_ForwardedToLookedUp ==
    [][Forwards =>
          /\ BackendOf(gwRoute) \in Names
          /\ calls'[BackendOf(gwRoute)] = calls[BackendOf(gwRoute)] + 1
          /\ gwSentTo' = lastRet'[BackendOf(gwRoute)]]_vars

C23_HealthAlways200 ==
    [][(gwHealth = NoAns /\ gwHealth' # NoAns) =>
          /\ gwHealth'.status = 200
          /\ gwHealth'.body = HealthBody
          /\ gwStore' = gwStore /\ gwCb' = gwCb
          /\ store' = store /\ cb' = cb]_vars

\* /health has answered while the client was at its limit and the breaker Open
C23_Witness ==
    /\ gwHealth = [status |-> 200, body |-> HealthBody, backend |-> 0]
    /\ Watched \in DOMAIN gwStore
    /\ gwStore[Watched].val >= Limit
    /\ gwCb.state = "open"

(***************************************************************************)
(* C28 as stated: every rate-limit counter in the store has an expiry      *)
(* deadline, no later than Duration after its creation, under any          *)
(* interleaving of concurrent requests with the expiry of keys (the store  *)
(* answering every command).                                               *)
(***************************************************************************)
C28_CounterExpires ==
    (Watched \in DOMAIN store /\ ~storeErr) =>
        /\ store[Watched].ttl # NoTTL
        /\ store[Watched].ttl <= Duration

(***************************************************************************)
(* C29: each backend has its own breaker: a request to one backend changes *)
(* the state and tally of no other backend's breaker, and a 503 on a route *)
(* comes from the breaker of that route's backend being Open, never from   *)
(* another's.                                                              *)
(***************************************************************************)
C29_BreakersIndependent ==
    [][isoLast'.route # NoName =>
          /\ \A b \in IsoBackends \ {BackendOf(isoLast'.route)} : isoCb'[b] = isoCb[b]
          /\ isoLast'.status = 503 => isoCb[BackendOf(isoLast'.route)].state = "open"]_vars

\* with the breaker of auth-service Open, a request to go-api has been served
C29_Witness ==
    /\ isoCb["auth-service"].state = "open"
    /\ isoCb["go-api"].state = "closed"
    /\ isoCb["go-api"].counts.TotalSuccesses = 1
    /\ isoLast = [route |-> "/api/v1/data", status |-> 200]

(***************************************************************************)
(* C30: after the termination signal no request is started; the requests   *)
(* being served are left to finish, none is cut off before the 30 s drain  *)
(* window has elapsed; the process exits only when no request is being     *)
(* served or the window has elapsed; and once the signal has come the      *)
(* process does exit.                                                      *)
(***************************************************************************)
C30_GracefulShutdown ==
    /\ [][/\ sdPhase # "serving" =>
                /\ sdStarted' = sdStarted
                /\ \A k \in SDConns : sdConn'[k] = "active" => sdConn[k] = "active"
          /\ (sdPhase = "serving" /\ sdPhase' # "serving") =>
                /\ sdPhase' = "draining"
                /\ \A k \in Serving : sdConn'[k] = "active"
          /\ sdCut' # sdCut => sdLeft = 0
          /\ sdPhase = "draining" =>
                \A k \in Serving : sdConn'[k] # "active" =>
                    \/ sdDrained' = sdDrained + 1
                    \/ sdLeft = 0
          /\ (sdPhase = "draining" /\ sdPhase' = "exited") =>
                \/ Serving = {}
                \/ sdLeft = 0
          /\ sdPhase = "exited" => sdVars' = sdVars]_sdVars
    /\ (sdPhase = "draining") ~> (sdPhase = "exited")

\* the signal came with two requests being served; both finished inside the
\* window and the process then exited
C30_Witness ==
    /\ sdPhase = "exited"
    /\ sdLog = ServerExited
    /\ sdDrained = 2
    /\ sdCut = 0
    /\ sdLeft > 0
    /\ sdLeft < DrainWindow

(***************************************************************************)
(* C31: the window is fixed: a request that increments a counter that is   *)
(* already there and has its deadline leaves that deadline where it was,   *)
(* whether the requests of the client come one after another or            *)
(* concurrently.                                                           *)
(***************************************************************************)
C31_DeadlineFixed ==
    [][\A c \in DOMAIN store :
          (/\ c \in DOMAIN store'
           /\ store[c].ttl # NoTTL
           /\ store'[c].val > store[c].val) =>
              store'[c].ttl = store[c].ttl]_vars

(***************************************************************************)
(* C32: in one HalfOpen episode at most 3 requests are passed to the       *)
(* backend, also when requests arrive while others are being served: a     *)
(* request that comes when 3 have been passed in the episode is not passed *)
(* on, and a fourth is passed only after the breaker has left HalfOpen.    *)
(***************************************************************************)
C32_TrialsBounded ==
    /\ trials <= TrialQuota
    /\ trials # 0 => cb[Watching].state = "half-open"

\* three trials have been passed in the episode, one of them is still being
\* served, and a request that came then was turned away
C32_Witness ==
    /\ cb[Watching].state = "half-open"
    /\ trials = TrialQuota
    /\ Running(Watching) # {}
    /\ cbLast.kind = "reject"

\* the step passes a request to next / ends a request of the breaker's current
\* generation with a failure
Admits == \E t \in Threads : cbPc[t] = "idle" /\ cbPc'[t] = "next"
RecordsFailure ==
    \E t \in Threads :
        cbPc[t] = "next" /\ cbPc'[t] = "idle" /\ cbBefore[t] /\ cbLast'.status >= 500

(***************************************************************************)
(* C33, as stated: the tally of a breaker is cleared on every state        *)
(* transition and at no other time: it never loses requests or failures    *)
(* while the breaker stays in its state, however long it stays Closed.     *)
(***************************************************************************)
C33_ClearedOnlyOnTransition ==
    [][LET c == cb[Watching]
           d == cb'[Watching]
       IN  /\ d.state # c.state =>
                 d.counts = IF Admits THEN CountRequest(ZeroCounts) ELSE ZeroCounts
           /\ d.state = c.state =>
                 /\ d.counts.Requests >= c.counts.Requests
                 /\ d.counts.TotalFailures >= c.counts.TotalFailures]_vars

(***************************************************************************)
(* C33, amended: the tally is cleared on every state transition and, in    *)
(* Closed, when the sampling interval of one minute has run out, and at no *)
(* other time; in between, every request passed to next adds one request   *)
(* and every failure recorded adds one failure.                            *)
(***************************************************************************)
C33_ClearedOnTransitionOrInterval ==
    [][LET c == cb[Watching]
           d == cb'[Watching]
           lapsed == c.state = "closed" /\ Lapsed
       IN  /\ d.state # c.state =>
                 d.counts = IF Admits THEN CountRequest(ZeroCounts) ELSE ZeroCounts
           /\ (d.state = c.state /\ lapsed /\ d.counts # c.counts) =>
                 d.counts = IF Admits THEN CountRequest(ZeroCounts) ELSE ZeroCounts
           /\ (d.state = c.state /\ ~lapsed) =>
                 /\ d.counts.Requests = c.counts.Requests + (IF Admits THEN 1 ELSE 0)
                 /\ d.counts.TotalFailures =
                        c.counts.TotalFailures + (IF RecordsFailure THEN 1 ELSE 0)]_vars

\* a Closed breaker whose tally holds fewer failures than the failed requests
\* it has just seen in a row: the interval ran out in between
C33_Witness ==
    /\ cb[Watching].state = "closed"
    /\ aged
    /\ streak >= 2
    /\ cb[Watching].counts.TotalFailures < streak

(***************************************************************************)
(* C34: exclusion on the registry is per service name: a GetEndpoint call  *)
(* for one name never waits for a call, lookup or registration, that is at *)
(* work on another name: it can enter its critical section at once.        *)
(***************************************************************************)
C34_NoWaitAcrossNames ==
    \A t \in Threads, name \in Names :
        (/\ regPc[t] = "idle"
         /\ \A u \in Threads \ {t} : regPc[u] # "idle" => regName[u] # name)
            => ENABLED (RegLock(t, "GetEndpoint", name) /\ UNCHANGED <<rlVars, cbVars, gwVars, isoVars, sdVars, mixVars, authVars>>)

(***************************************************************************)
(* C35: a request on the data route that the authenticator rejects with    *)
(* 401 leaves the go-api breaker as it was: no stage that runs for it, up  *)
(* to and including the authenticator, touches the breaker's state or      *)
(* tally, and the breaker's Middleware has not run when the 401 is         *)
(* written.                                                                *)
(***************************************************************************)
C35_RejectedLeavesBreaker ==
    [][/\ (gwAt > 0 /\ gwAt' # gwAt /\ Chain(gwRoute)[gwAt] \notin {"breaker", "forward"}) =>
              gwCb' = gwCb
       /\ (gwAt = 0 /\ gwAt' # gwAt) => gwCb' = gwCb
       /\ (gwAns'.status = 401 /\ gwAns.status # 401) =>
              /\ gwRoute = DataRoute
              /\ Stage("authenticate")
              /\ \A i \in 1..gwRan : Chain(gwRoute)[i] \notin {"breaker", "forward"}
              /\ gwCb' = gwCb]_vars

\* a request without a valid credential has been answered 401 while the
\* breaker was HalfOpen with one trial passed: the trial count is as it was
C35_Witness ==
    /\ Done
    /\ gwRoute = DataRoute
    /\ gwAns.status = 401
    /\ gwCb.state = "half-open"
    /\ gwCb.counts.Requests = 1

(***************************************************************************)
(* C36: the three route groups share one budget per client: within a       *)
(* window the limiter passes on at most Limit requests of a client over    *)
(* all three groups together, and once it has passed Limit of them the     *)
(* client's next request in the window, on whichever group, gets 429.      *)
(***************************************************************************)
C36_SharedBudget ==
    [][/\ mixAllowed' <= Limit
       /\ (/\ mixLast' # NoMix
           /\ mixLast'.client = Watched
           /\ mixAllowed = Limit
           /\ CountersOf(Watched) # {}
           /\ <<mixLast', mixStore'>> # <<mixLast, mixStore>>) =>
              mixLast'.status = 429 /\ mixStore' = mixStore]_vars

\* the client's budget went on two route groups and its request to the third
\* was denied
C36_Witness ==
    /\ mixLast.client = Watched
    /\ mixLast.status = 429
    /\ mixAllowed = Limit
    /\ Cardinality(mixRoutes) = 2
    /\ mixLast.route \notin mixRoutes

(***************************************************************************)
(* C37: requests from one network source address are counted against one   *)
(* counter whatever headers they carry: the limiter takes the source       *)
(* address for the client of every request, and never passes on more than  *)
(* Limit requests from one address at one moment.                          *)
(***************************************************************************)
C37_HeadersDoNotMatter ==
    /\ mixLast # NoMix => mixLast.client = mixLast.remoteAddr
    /\ mixBurst <= Limit

(***************************************************************************)
(* C38: after Logout has been called with a user's refresh token, every    *)
(* RefreshToken call for that user gets 401 until the user logs in again;  *)
(* a refresh succeeds only while the token presented is the token stored   *)
(* for the user.                                                           *)
(***************************************************************************)
C38_NoRefreshAfterLogout ==
    (authLast.op = "RefreshToken" /\ authLast.status = 200) =>
        /\ ~loggedOut[authLast.user]
        /\ authLast.user \in DOMAIN rtStore
        /\ rtStore[authLast.user] = authLast.tok

(***************************************************************************)
(* C39: Logout removes the stored refresh token of a user only when the    *)
(* token presented verifies under the service secret and names that user;  *)
(* a token that fails verification leaves every stored token as it was.    *)
(***************************************************************************)
C39_LogoutNeedsVerifiedToken ==
    [][\A u \in DOMAIN rtStore :
          u \notin DOMAIN rtStore' =>
              /\ authLast'.op = "Logout"
              /\ authLast'.tok.key = "shared"
              /\ authLast'.tok.sub = u]_vars

====
